---- MODULE Spec2Model ----
(***************************************************************************)
(* Verification model of the Discord channel permission scheduler          *)
(* (src/main.py, class DiscordPermissionScheduler).                        *)
(*                                                                         *)
(* The module holds several specifications over one set of variables:      *)
(*   Spec       the task sweep and the lock and unlock sequences           *)
(*   SpecHttp   one thread issuing calls through the HTTP client           *)
(*   SpecHttp2  two threads (main sweep, background sequence) doing so     *)
(*   SpecLimit  calculate_cumulative_limit on enumerated inputs            *)
(*   SpecCash   auto-cash and the cash checks over several days            *)
(*   SpecSchedules  the cash checks and the role distributions by their     *)
(*              intervals, over several days                               *)
(*   SpecRoles  one role distribution over enumerated roles sections       *)
(*   SpecFeatures  enable_all_features and disable_all_features            *)
(*   SpecLoop   the polling loop of run() with its sweeps and back-off     *)
(*   SpecLive   Spec with every sequence thread taking its steps           *)
(*   SpecConfig Spec with the administrative process (src/bot.py) adding   *)
(*              a task to the configuration file                           *)
(*   SpecParse  parse_time_format on enumerated texts                      *)
(*   SpecLb     parse_lb_cash_response on enumerated messages              *)
(*   SpecFetch  fetch_latest_bot_message against a rate-limiting server    *)
(* Each specification leaves the variables of the other parts unchanged.   *)
(*                                                                         *)
(* Time.  `now' is the wall clock in whole seconds.  time.sleep(x) is      *)
(* modelled by its guarantee: the sleeping thread takes its next step no   *)
(* earlier than floor(x) seconds later and possibly later than that.  An   *)
(* HTTP round trip takes at least 0 seconds.  SpecCash has its own clock  *)
(* of dates and minutes of the day; one evaluation of                      *)
(* calculate_cumulative_limit reads it once.                               *)
(***************************************************************************)
EXTENDS Integers, Sequences, FiniteSets, TLC

(* ---------------------------- bounds ----------------------------------- *)
MaxTime == 5            \* horizon of the wall clock, seconds
MaxTime2 == 2           \* the same when two threads use the client
MaxRetryAfter == 2      \* largest retry_after a 429 response carries
MaxResetAhead == 2      \* X-RateLimit-Reset lies at most this far ahead
MaxMinute == 1          \* wall-clock minutes 0..MaxMinute pass
MaxRuns == 2            \* lock/unlock sequences started in one behaviour
MaxTableLen == 3         \* entries of the weekday->amount table
TableDays == 3           \* weekdays a table draws from, Monday first
MaxDate == 4             \* dates 1..MaxDate (day 1 is a Monday)
MaxCashDate == 2         \* days the auto-cash run lasts (day 1 is a Monday)
MaxRoles == 2            \* role names in the roles section
MaxCalls == 2            \* calls of enable/disable_all_features remembered
MaxLoopTime == 130       \* horizon of the scheduling loop, seconds
RecursionLimit == 4      \* nested calls the interpreter allows; 1000 by default
MaxRecords == 2         \* ceiling of the execution-record set; 1000 in the code
MaxHourText == 13      \* hours 0..MaxHourText are written into the time-specs
                        \* (main.py:1312), scaled so that the ceiling is reached

(* ------------------------ program constants ---------------------------- *)
\* Variant: one attempt more than the code grants.
max_retries_extra == 3 + 1

max_retries == 3
\* self.last_auto_cash_execution = None; dates are the days 1, 2, ... and
\* day 1 is a Monday.
None == 0
PollSeconds == 5
BackoffSeconds == 60
check_interval_minutes == 5
DefaultRetryAfter == 5
role_interval_minutes == 30

VARIABLES
    now,              \* wall clock (time.time()), seconds
    callPc,           \* per thread: "idle" | "loop" | "done"
    callKind,         \* per thread: the client method being executed
    attempt,          \* per thread: loop variable of `for attempt in range(max_retries)'
    wake,             \* per thread: end of the thread's current time.sleep
    callResult,       \* per thread: "none" | "ok" | "fail" (truthiness of the return value)
    rate_limit_reset, \* self.rate_limit_reset
    \* ---- observations of the current call (history variables) ----
    nreq,             \* per thread: HTTP requests issued by the current call
    lastResp,         \* per thread: class of the last response, "none" before the first
    prior429,         \* per thread: every response before the last one was a 429
    priorTransient,   \* per thread: every response before the last one was a retryable
                      \*             error status or a timeout
    notBefore,        \* per thread: time of the last 429 plus its wait directive, else 0
    earlyRetry,       \* per thread: the last request went out before notBefore
    lastHeaders,      \* per endpoint: reset time if the last response showed 0 remaining, else 0
    earlySend         \* per thread: the last request went out before lastHeaders of its endpoint

httpVars == <<now, callPc, callKind, attempt, wake, callResult, rate_limit_reset,
              nreq, lastResp, prior429, priorTransient, notBefore, earlyRetry,
              lastHeaders, earlySend>>

VARIABLES
    minute,           \* wall clock at minute resolution (datetime.now, '%Y-%m-%d_%H:%M')
    config,           \* self.config: the in-memory configuration document
    file,             \* the persisted configuration document (config.json)
    last_execution,   \* keys of self.last_execution: <<task name, minute>>
    sweepPos,         \* position of check_all_tasks: 0 = not running, k = at the k-th task
    runs,             \* the lock/unlock sequences started so far, one background thread each
    fired,            \* per <<task, minute>>: sequences dispatched / custom updates applied
    custom,           \* history: what the latest custom action did
    known_tasks,      \* self.known_tasks: the task names of the latest snapshot
    known_roles       \* self.known_roles: the role names of the latest snapshot

schedVars == <<minute, config, file, last_execution, sweepPos, runs, fired, custom,
               known_tasks, known_roles>>

VARIABLES
    limIn,            \* calculate_cumulative_limit: the configuration, clock and
                      \* execution marker it is evaluated on
    limOut            \* its result, once evaluated

limitVars == <<limIn, limOut>>

VARIABLES
    clock,                     \* datetime.now(): the date and the minute of the day
    last_check_minute,         \* run(): the minute of the latest sweep
    cashPc,                    \* where the sweep stands in its auto-cash and cash-check part
    auto_cash,                 \* config['auto_cash']: its time and its amounts table
    last_auto_cash_execution,  \* date of the latest recorded auto-cash run, or None
    last_cash_check_time,      \* time of the latest cash check, or NoTime
    granted,                   \* history: dates whose auto-cash command was delivered
    lastCheck,                 \* history: the limit the latest cash check used
    cycle,                     \* history: the latest cash-check cycle and the one before
    deliveries,                \* history: per date, the auto-cash commands delivered
    last_role_cash_time,       \* time of the latest role distribution, or NoTime
    roleCycle                  \* history: the latest role distribution

cashVars == <<clock, last_check_minute, cashPc, auto_cash, last_auto_cash_execution,
              last_cash_check_time, granted, lastCheck, cycle,
              deliveries, last_role_cash_time, roleCycle>>

VARIABLES
    roleRun,          \* add_cash_to_all_roles: the roles section, the place in it,
                      \* the result map and (history) the commands attempted
    calls,            \* history: the latest calls of enable_all_features and
                      \* disable_all_features, newest first
    loop,             \* run(): the scheduling loop
    admin,            \* the administrative process (ConfigManager.add_task)
    timeParse,        \* parse_time_format: the text it is given and what it returns
    lb,               \* parse_lb_cash_response: the message it is given and what it returns
    fetch             \* fetch_latest_bot_message: the nested calls of fetch_latest_messages,
                      \* the requests issued and what is returned

auxVars == <<roleRun, calls, loop, admin, timeParse, lb, fetch>>

vars == <<httpVars, schedVars, limitVars, cashVars, auxVars>>

(* ------------------------------ HTTP client ---------------------------- *)
Threads == {"main", "seq"}

Kinds == {"send_message", "lock_channel", "unlock_channel", "update_channel_permissions"}

\* The URL each method talks to (one channel, one guild).
Endpoint(kind) ==
    CASE kind = "send_message" -> "channels/messages"
      [] kind \in {"lock_channel", "unlock_channel"} -> "channels/permissions"
      [] OTHER -> "channels"

Endpoints == {Endpoint(k) : k \in Kinds}

StatusCodes == {200, 204, 401, 403, 404, 429, 500}

\* What session.post/put/patch can produce at time t: a response with a
\* status, for 429 a JSON body with or without retry_after, and optional
\* X-RateLimit-Remaining / X-RateLimit-Reset headers; or an exception.
MkResp(e, s, h, ra, rem, rst) ==
    [exc |-> e, status |-> s, has_retry_after |-> h, retry_after |-> ra,
     remaining |-> rem, reset |-> rst]

Responses(t) ==
    { MkResp("none", s, FALSE, 0, rem, 0) :
        s \in StatusCodes \ {429}, rem \in {"absent", "positive"} }
    \cup
    { MkResp("none", s, FALSE, 0, "zero", rst) :
        s \in StatusCodes \ {429}, rst \in t..(t + MaxResetAhead) }
    \cup
    { MkResp("none", 429, TRUE, ra, "absent", 0) : ra \in 1..MaxRetryAfter }
    \cup
    { MkResp("none", 429, TRUE, ra, "zero", t + ra) : ra \in 1..MaxRetryAfter }
    \cup
    { MkResp("none", 429, FALSE, 0, "absent", 0) }
    \cup
    { MkResp(e, 0, FALSE, 0, "absent", 0) : e \in {"Timeout", "RequestException"} }

RECURSIVE Pow2(_)
Pow2(n) == IF n = 0 THEN 1 ELSE 2 * Pow2(n - 1)

Max(a, b) == IF a >= b THEN a ELSE b

\* Variant: the 429 branch returns without sleeping.
HandleRateLimit_NoSleep(resp, t) ==
    IF resp.status = 429
    THEN [limited |-> TRUE, until |-> t]
    ELSE IF resp.remaining = "zero"
         THEN [limited |-> FALSE, until |-> t + Max(0, resp.reset - t)]
         ELSE [limited |-> FALSE, until |-> t]

\* _handle_rate_limit(response, endpoint) called at time t: the value it
\* returns and the time at which it returns (it sleeps inside).
HandleRateLimit(resp, t) ==
    IF resp.status = 429
    THEN [limited |-> TRUE,
          until |-> t + (IF resp.has_retry_after THEN resp.retry_after ELSE DefaultRetryAfter)]
    ELSE IF resp.remaining = "zero"
         THEN [limited |-> FALSE, until |-> t + Max(0, resp.reset - t)]
         ELSE [limited |-> FALSE, until |-> t]

\* Status codes the method treats as success.
SuccessCodes(kind) == IF kind = "send_message" THEN {200} ELSE {200, 204}

\* Variant: the 403 branch is missing, so 403 is retried like a server error.
LoopBody_Retry403(kind, a, resp, t) ==
    LET h == HandleRateLimit(resp, t)
        exhausted == a + 1 >= max_retries
    IN  CASE resp.exc = "Timeout" ->
               IF a < max_retries - 1
               THEN [pc |-> "loop", attempt |-> a + 1, wake |-> t + Pow2(a), result |-> "none"]
               ELSE [pc |-> "done", attempt |-> a, wake |-> t, result |-> "fail"]
          [] resp.exc = "RequestException" ->
               [pc |-> "done", attempt |-> a, wake |-> t, result |-> "fail"]
          [] resp.exc = "none" /\ h.limited ->
               IF exhausted
               THEN [pc |-> "done", attempt |-> a, wake |-> h.until, result |-> "fail"]
               ELSE [pc |-> "loop", attempt |-> a + 1, wake |-> h.until, result |-> "none"]
          [] resp.exc = "none" /\ ~h.limited /\ resp.status \in SuccessCodes(kind) ->
               [pc |-> "done", attempt |-> a, wake |-> h.until, result |-> "ok"]
          [] resp.exc = "none" /\ ~h.limited /\ resp.status \in {401, 404} ->
               [pc |-> "done", attempt |-> a, wake |-> h.until, result |-> "fail"]
          [] OTHER ->
               IF a < max_retries - 1
               THEN [pc |-> "loop", attempt |-> a + 1, wake |-> h.until + Pow2(a),
                     result |-> "none"]
               ELSE [pc |-> "done", attempt |-> a, wake |-> h.until, result |-> "fail"]

\* One iteration of `for attempt in range(max_retries)' of send_message,
\* lock_channel, unlock_channel and update_channel_permissions, entered with
\* loop variable a at time t and answered by resp.  pc = "loop" means the
\* loop goes on with the next value of the loop variable.
LoopBody(kind, a, resp, t) ==
    LET h == HandleRateLimit(resp, t)
        exhausted == a + 1 >= max_retries
    IN  CASE resp.exc = "Timeout" ->
               IF a < max_retries - 1
               THEN [pc |-> "loop", attempt |-> a + 1, wake |-> t + Pow2(a), result |-> "none"]
               ELSE [pc |-> "done", attempt |-> a, wake |-> t, result |-> "fail"]
          [] resp.exc = "RequestException" ->
               [pc |-> "done", attempt |-> a, wake |-> t, result |-> "fail"]
          [] resp.exc = "none" /\ h.limited ->
               \* `continue': the for statement moves on to the next attempt
               IF exhausted
               THEN [pc |-> "done", attempt |-> a, wake |-> h.until, result |-> "fail"]
               ELSE [pc |-> "loop", attempt |-> a + 1, wake |-> h.until, result |-> "none"]
          [] resp.exc = "none" /\ ~h.limited /\ resp.status \in SuccessCodes(kind) ->
               [pc |-> "done", attempt |-> a, wake |-> h.until, result |-> "ok"]
          [] resp.exc = "none" /\ ~h.limited /\ resp.status \in {401, 403, 404} ->
               [pc |-> "done", attempt |-> a, wake |-> h.until, result |-> "fail"]
          [] OTHER ->
               IF a < max_retries - 1
               THEN [pc |-> "loop", attempt |-> a + 1, wake |-> h.until + Pow2(a),
                     result |-> "none"]
               ELSE [pc |-> "done", attempt |-> a, wake |-> h.until, result |-> "fail"]

\* How the interface description classifies a response.
ResponseClass(kind, resp) ==
    CASE resp.exc = "Timeout" -> "timeout"
      [] resp.exc = "RequestException" -> "exception"
      [] resp.status = 429 -> "ratelimited"
      [] resp.status \in {401, 403, 404} -> "permanent"
      [] resp.status \in SuccessCodes(kind) -> "success"
      [] OTHER -> "transient"

\* A thread enters one of the four client methods.
StartCall(th, kind) ==
    /\ callPc[th] \in {"idle", "done"}
    /\ now >= wake[th]
    /\ callPc' = [callPc EXCEPT ![th] = "loop"]
    /\ callKind' = [callKind EXCEPT ![th] = kind]
    /\ attempt' = [attempt EXCEPT ![th] = 0]
    /\ callResult' = [callResult EXCEPT ![th] = "none"]
    /\ nreq' = [nreq EXCEPT ![th] = 0]
    /\ lastResp' = [lastResp EXCEPT ![th] = "none"]
    /\ prior429' = [prior429 EXCEPT ![th] = TRUE]
    /\ priorTransient' = [priorTransient EXCEPT ![th] = TRUE]
    /\ notBefore' = [notBefore EXCEPT ![th] = 0]
    /\ earlyRetry' = [earlyRetry EXCEPT ![th] = FALSE]
    /\ earlySend' = [earlySend EXCEPT ![th] = FALSE]
    /\ UNCHANGED <<now, wake, rate_limit_reset, lastHeaders>>
    /\ UNCHANGED <<schedVars, limitVars, cashVars, auxVars>>

\* One pass through the loop body: the request goes out once the thread's
\* sleep is over, the response (or exception) comes back and is handled.
Request(th) ==
    /\ callPc[th] = "loop"
    /\ now >= wake[th]
    /\ \E resp \in Responses(now) :
         LET kind == callKind[th]
             ep == Endpoint(kind)
             r == LoopBody(kind, attempt[th], resp, now)
             cls == ResponseClass(kind, resp)
         IN  /\ callPc' = [callPc EXCEPT ![th] = r.pc]
             /\ attempt' = [attempt EXCEPT ![th] = r.attempt]
             /\ wake' = [wake EXCEPT ![th] = r.wake]
             /\ callResult' = [callResult EXCEPT ![th] = r.result]
             /\ nreq' = [nreq EXCEPT ![th] = @ + 1]
             /\ lastResp' = [lastResp EXCEPT ![th] = cls]
             /\ prior429' = [prior429 EXCEPT ![th] =
                                 @ /\ lastResp[th] \in {"none", "ratelimited"}]
             /\ priorTransient' = [priorTransient EXCEPT ![th] =
                                 @ /\ lastResp[th] \in {"none", "transient", "timeout"}]
             /\ earlyRetry' = [earlyRetry EXCEPT ![th] = now < notBefore[th]]
             /\ notBefore' = [notBefore EXCEPT ![th] =
                                 IF resp.status = 429 /\ resp.has_retry_after
                                 THEN now + resp.retry_after ELSE 0]
             /\ earlySend' = [earlySend EXCEPT ![th] = now < lastHeaders[ep]]
             /\ lastHeaders' = [lastHeaders EXCEPT ![ep] =
                                 IF resp.exc # "none" THEN @
                                 ELSE IF resp.remaining = "zero" THEN resp.reset ELSE 0]
    /\ UNCHANGED <<now, callKind, rate_limit_reset>>
    /\ UNCHANGED <<schedVars, limitVars, cashVars, auxVars>>

\* The wall clock advances.
Tick ==
    /\ now < MaxTime
    /\ now' = now + 1
    /\ UNCHANGED <<callPc, callKind, attempt, wake, callResult, rate_limit_reset,
                   nreq, lastResp, prior429, priorTransient, notBefore, earlyRetry,
                   lastHeaders, earlySend>>
    /\ UNCHANGED <<schedVars, limitVars, cashVars, auxVars>>

HttpInit ==
    /\ now = 0
    /\ callPc = [th \in Threads |-> "idle"]
    /\ callKind = [th \in Threads |-> "send_message"]
    /\ attempt = [th \in Threads |-> 0]
    /\ wake = [th \in Threads |-> 0]
    /\ callResult = [th \in Threads |-> "none"]
    /\ rate_limit_reset = <<>>
    /\ nreq = [th \in Threads |-> 0]
    /\ lastResp = [th \in Threads |-> "none"]
    /\ prior429 = [th \in Threads |-> TRUE]
    /\ priorTransient = [th \in Threads |-> TRUE]
    /\ notBefore = [th \in Threads |-> 0]
    /\ earlyRetry = [th \in Threads |-> FALSE]
    /\ lastHeaders = [e \in Endpoints |-> 0]
    /\ earlySend = [th \in Threads |-> FALSE]

(* ------------------------------ scheduler ------------------------------ *)
\* TOGGLEABLE_FEATURES
Features == {"auto_cash", "cash_checks", "add_cash_to_roles"}

\* Task names in the order Python compares strings.
SortedNames == <<"close", "mute", "open", "perms">>

\* The `tasks' section of the configuration document, in document order.
\* lock_time is the minute of the day the time-spec denotes.
TaskTable ==
    << [name |-> "open",  action |-> "unlock", lock_time |-> 0, message |-> FALSE,
        permissions |-> "absent"],
       [name |-> "perms", action |-> "custom", lock_time |-> 0, message |-> TRUE,
        permissions |-> "perms_overwrites"],
       [name |-> "close", action |-> "lock",   lock_time |-> 1, message |-> FALSE,
        permissions |-> "absent"],
       [name |-> "mute",  action |-> "custom", lock_time |-> 1, message |-> FALSE,
        permissions |-> "mute_overwrites"] >>

\* No custom action has run yet.
NoCustom == [task |-> "none", updates |-> <<>>, success |-> FALSE, sent |-> <<>>]

Keys == {<<SortedNames[i], m>> : i \in 1..Len(SortedNames), m \in 0..MaxMinute}

\* The configuration document with the sections of the features in
\* `without' left out and every other feature enabled.
Document(without) ==
    [tasks |-> TaskTable,
     roles |-> IF "add_cash_to_roles" \in without THEN {} ELSE {"vip", "mod"},
     features |-> [f \in Features |-> IF f \in without THEN "absent" ELSE "on"]]

\* set(document.get('tasks', {}).keys())
TaskNames(document) == {document.tasks[k].name : k \in 1..Len(document.tasks)}

SchedStart(document) ==
    /\ minute = 0
    /\ config = document
    /\ file = config
    /\ last_execution = {}
    /\ sweepPos = 0
    /\ runs = <<>>
    /\ fired = [k \in Keys |-> 0]
    /\ custom = NoCustom
    /\ known_tasks = TaskNames(config)
    /\ known_roles = config.roles

SchedInit == SchedStart(Document({}))

LimitIdle == limIn = "none" /\ limOut = [done |-> FALSE, limit |-> 0]

\* Times of day the sweeps of a day fall at, around the auto-cash time.
DaySlots ==
    << [hour |-> 9, min |-> 25], [hour |-> 9, min |-> 30],
       [hour |-> 9, min |-> 32], [hour |-> 9, min |-> 35] >>

NoTime == [date |-> 0, slot |-> 0]

NoCheck == [done |-> FALSE, limit |-> 0, date |-> 0, last |-> None, granted |-> {}]

NoRoleCycle == [start |-> NoTime, prev |-> NoTime]

NoCycle ==
    [start |-> NoTime, outcome |-> "none", current |-> 0, limit |-> 0, topups |-> <<>>,
     prevOutcome |-> "none", early |-> FALSE]

\* The scheduler is started on the date `date', at the first time of day.
CashStart(date) ==
    /\ clock = [date |-> date, slot |-> 1]
    /\ last_check_minute = NoTime
    /\ cashPc = "idle"
    /\ auto_cash = [time |-> [fmt |-> "12h", h |-> 9, m |-> 30, mer |-> "am"],
                    amounts |-> << [day |-> "Monday", amount |-> [form |-> "int", mant |-> 10, exp |-> 0]],
                                   [day |-> "Tuesday", amount |-> [form |-> "sci", mant |-> 2, exp |-> 1]],
                                   [day |-> "Wednesday", amount |-> [form |-> "dec", mant |-> 30, exp |-> 0]] >>]
    /\ last_auto_cash_execution = None
    /\ last_cash_check_time = NoTime
    /\ granted = {}
    /\ lastCheck = NoCheck
    /\ cycle = NoCycle
    /\ deliveries = [d \in 1..MaxCashDate |-> 0]
    /\ last_role_cash_time = NoTime
    /\ roleCycle = NoRoleCycle

CashInit == CashStart(1)

NoRoleRun == [roles |-> <<>>, pc |-> "idle", pos |-> 0, results |-> <<>>, attempts |-> <<>>]

NoLoop == [pc |-> "off"]

NoAdmin == [pc |-> "off"]

NoParse == [pc |-> "off"]

NoLb == [pc |-> "off"]

NoFetch == [pc |-> "off"]

OthersIdle == admin = NoAdmin /\ timeParse = NoParse /\ lb = NoLb /\ fetch = NoFetch

AuxIdle == roleRun = NoRoleRun /\ calls = <<>> /\ loop = NoLoop /\ OthersIdle

Init == HttpInit /\ SchedInit /\ LimitIdle /\ CashInit /\ AuxIdle

\* The answers a call can get when rate-limit headers are left aside.
PlainResponses == {r \in Responses(0) : r.remaining = "absent"}

\* A whole call of one of the four client methods, answered by resps in
\* turn: the truthiness of what it returns.
RECURSIVE RunCall(_, _, _)
RunCall(kind, a, resps) ==
    LET r == LoopBody(kind, a, Head(resps), 0)
    IN  IF r.pc = "done" THEN r.result = "ok" ELSE RunCall(kind, r.attempt, Tail(resps))

\* The results each client method can return.
CallOutcomes ==
    [k \in Kinds |-> {RunCall(k, 0, rs) : rs \in [1..max_retries -> PlainResponses]}]

\* type_and_send: typing indicator (result ignored), typing pause, send_message.
TypeAndSendOutcomes == CallOutcomes["send_message"]

\* should_execute for a time-spec without weekday: hour and minute equal.
ShouldExecute(lock_time, m) == lock_time = m

NameRank(n) == CHOOSE i \in 1..Len(SortedNames) : SortedNames[i] = n

\* Order of the keys f"{task_name}_{'%Y-%m-%d_%H:%M'}" as strings.
KeyLeq(k1, k2) ==
    \/ NameRank(k1[1]) < NameRank(k2[1])
    \/ k1[1] = k2[1] /\ k1[2] <= k2[2]

\* min(self.last_execution.keys())
MinKey(S) == CHOOSE k \in S : \A j \in S : KeyLeq(k, j)

\* The bookkeeping of execute_task after a successful action.
RecordExecution(recs, key) ==
    LET added == recs \cup {key}
    IN  IF Cardinality(added) > MaxRecords THEN added \ {MinKey(added)} ELSE added

\* _set_feature_states: the loop over TOGGLEABLE_FEATURES.
\* Variant: each present flag is inverted instead of being set.
SetFeatureStates_Invert(features, enabled) ==
    [f \in DOMAIN features |->
        IF features[f] = "absent" THEN "absent"
        ELSE IF features[f] = "on" THEN "off" ELSE "on"]

SetFeatureStates(features, enabled) ==
    [f \in DOMAIN features |->
        IF features[f] = "absent" THEN "absent"
        ELSE IF enabled THEN "on" ELSE "off"]

\* Variant: execute_task joins the thread, so the sequence has run to its
\* end when the dispatch returns.
NewRun_Joined(kind, name, m) ==
    [kind |-> kind, task |-> name, minute |-> m,
     pc |-> "Done", perm |-> "ok", toggles |-> 1,
     sent |-> IF kind = "lock" THEN <<"$lb", "closing">>
              ELSE <<"$reset-economy", "yes", "opening">>,
     steps |-> <<>>, fails |-> 0, applied |-> 0]

\* threading.Thread(target=self._run_async_lock_sequence, ...).start(), or the
\* same for the unlock sequence: the sequence stands before its first step.
NewRun(kind, name, m) ==
    [kind |-> kind, task |-> name, minute |-> m,
     pc |-> IF kind = "lock" THEN "lock_channel" ELSE "send_reset",
     perm |-> "pending", toggles |-> 0, sent |-> <<>>, steps |-> <<>>, fails |-> 0,
     applied |-> 0]

\* The number of lock_channel and unlock_channel calls that have succeeded.
\* (History: a sequence notes in `applied' the position of its successful
\* permission update among all of them, 0 while it has none.)
Updates(rs) == Cardinality({j \in DOMAIN rs : rs[j].applied > 0})

\* The loop of run() finds a new minute, or a caller invokes check_all_tasks.
SweepStart ==
    /\ sweepPos = 0
    /\ sweepPos' = IF Len(config.tasks) = 0 THEN 0 ELSE 1
    /\ UNCHANGED <<minute, config, file, last_execution, runs, fired, custom, known_tasks, known_roles>>
    /\ UNCHANGED <<httpVars, limitVars, cashVars, auxVars>>

\* Variant: the message is sent whether or not the update succeeded.
CustomAction_AlwaysSend(task) ==
    { [task |-> task.name, updates |-> <<task.permissions>>, success |-> success,
       sent |-> IF task.message THEN <<"message">> ELSE <<>>] :
        success \in CallOutcomes["update_channel_permissions"] }

\* The custom branch of execute_task: update_channel_permissions with the
\* task's permissions, then type_and_send of the task's message if there is
\* one and the update succeeded (the send's result is ignored).
CustomAction(task) ==
    { [task |-> task.name, updates |-> <<task.permissions>>, success |-> success,
       sent |-> IF task.message /\ success THEN <<"message">> ELSE <<>>] :
        success \in CallOutcomes["update_channel_permissions"] }

\* execute_task for the task check_all_tasks has arrived at.
ExecuteTask ==
    /\ sweepPos \in 1..Len(config.tasks)
    /\ LET task == config.tasks[sweepPos]
           key == <<task.name, minute>>
       IN  IF key \in last_execution \/ ~ShouldExecute(task.lock_time, minute)
           THEN UNCHANGED <<last_execution, runs, fired, custom>>
           ELSE IF task.action \in {"lock", "unlock"}
           THEN /\ Len(runs) < MaxRuns
                /\ runs' = Append(runs, NewRun(task.action, task.name, minute))
                /\ fired' = [fired EXCEPT ![key] = @ + 1]
                /\ last_execution' = RecordExecution(last_execution, key)
                /\ UNCHANGED custom
           ELSE /\ fired[key] < 2
                /\ \E c \in CustomAction(task) :
                     /\ custom' = c
                     /\ fired' = [fired EXCEPT ![key] = IF c.success THEN @ + 1 ELSE @]
                     /\ last_execution' = IF c.success
                                          THEN RecordExecution(last_execution, key)
                                          ELSE last_execution
                /\ UNCHANGED runs
    /\ sweepPos' = IF sweepPos = Len(config.tasks) THEN 0 ELSE sweepPos + 1
    /\ UNCHANGED <<minute, config, file, known_tasks, known_roles>>
    /\ UNCHANGED <<httpVars, limitVars, cashVars, auxVars>>

\* The wall clock reaches the next minute.
NextMinute ==
    /\ minute < MaxMinute
    /\ minute' = minute + 1
    /\ UNCHANGED <<config, file, last_execution, sweepPos, runs, fired, custom, known_tasks, known_roles>>
    /\ UNCHANGED <<httpVars, limitVars, cashVars, auxVars>>

\* Variant: the known-task and known-role sets are cleared before the file is
\* read, so a failed reload leaves them empty.
ReloadConfig_ClearFirst ==
    /\ sweepPos = 0
    /\ cashPc = "idle"
    /\ \E readable \in BOOLEAN :
         /\ config' = IF readable THEN file ELSE config
         /\ known_tasks' = IF readable THEN TaskNames(file) ELSE {}
         /\ known_roles' = IF readable THEN file.roles ELSE {}
         /\ admin' = IF admin.pc \in {"saved", "missed"}
                     THEN [admin EXCEPT !.pc = IF readable THEN "reloaded" ELSE "missed"]
                     ELSE admin
    /\ UNCHANGED <<minute, file, last_execution, sweepPos, runs, fired, custom>>
    /\ UNCHANGED <<httpVars, limitVars, cashVars>>
    /\ UNCHANGED <<roleRun, calls, loop, timeParse, lb, fetch>>

\* reload_config, run by schedule.run_pending between two sweeps: the whole
\* document is read and replaces self.config; a file that cannot be read
\* leaves self.config, self.known_tasks and self.known_roles as they are.
\* (History: after the administrative process has written the file, a reload
\* that cannot read it and the first reload that reads it are noted.)
ReloadConfig ==
    /\ sweepPos = 0
    /\ cashPc = "idle"
    /\ \E readable \in BOOLEAN :
         /\ config' = IF readable THEN file ELSE config
         /\ known_tasks' = IF readable THEN TaskNames(file) ELSE known_tasks
         /\ known_roles' = IF readable THEN file.roles ELSE known_roles
         /\ admin' = IF admin.pc \in {"saved", "missed"}
                     THEN [admin EXCEPT !.pc = IF readable THEN "reloaded" ELSE "missed"]
                     ELSE admin
    /\ UNCHANGED <<minute, file, last_execution, sweepPos, runs, fired, custom>>
    /\ UNCHANGED <<httpVars, limitVars, cashVars>>
    /\ UNCHANGED <<roleRun, calls, loop, timeParse, lb, fetch>>

(* ----------------------- lock and unlock sequences --------------------- *)
SeqFrame ==
    UNCHANGED <<minute, last_execution, sweepPos, fired, custom, known_tasks, known_roles>> /\ UNCHANGED <<httpVars, limitVars, cashVars, auxVars>>

\* Variant: the `if not success: return False' after lock_channel is missing.
LockChannel_NoAbort(i) ==
    /\ runs[i].kind = "lock" /\ runs[i].pc = "lock_channel"
    /\ \E success \in CallOutcomes["lock_channel"] :
         runs' = [runs EXCEPT ![i].perm = IF success THEN "ok" ELSE "fail",
                              ![i].applied = IF success THEN Updates(runs) + 1 ELSE 0,
                              ![i].steps = Append(@, "lock_channel"),
                              ![i].pc = "disable"]
    /\ UNCHANGED <<config, file>>
    /\ SeqFrame

\* _async_lock_sequence step 1: lock_channel; return False if it failed.
LockChannel(i) ==
    /\ runs[i].kind = "lock" /\ runs[i].pc = "lock_channel"
    /\ \E success \in CallOutcomes["lock_channel"] :
         runs' = [runs EXCEPT ![i].perm = IF success THEN "ok" ELSE "fail",
                              ![i].applied = IF success THEN Updates(runs) + 1 ELSE 0,
                              ![i].steps = Append(@, "lock_channel"),
                              ![i].pc = IF success THEN "disable" ELSE "Aborted"]
    /\ UNCHANGED <<config, file>>
    /\ SeqFrame

\* disable_all_features(True) / enable_all_features(True): set every present
\* feature in memory, then write the whole document; the write may fail.
ToggleFeatures(i, at, enabled, next) ==
    /\ runs[i].pc = at
    /\ config' = [config EXCEPT !.features = SetFeatureStates(@, enabled)]
    /\ \E saved \in BOOLEAN :
         /\ file' = IF saved THEN config' ELSE file
         /\ runs' = [runs EXCEPT ![i].toggles = @ + 1, ![i].pc = next,
                                 ![i].steps = Append(@, at),
                                 ![i].fails = IF saved THEN @ ELSE @ + 1]
    /\ SeqFrame

\* await asyncio.to_thread(self.type_and_send, channel_id, content): the
\* result is ignored.
SendStep(i, at, content, next) ==
    /\ runs[i].pc = at
    /\ \E delivered \in TypeAndSendOutcomes :
         runs' = [runs EXCEPT ![i].sent = Append(@, content), ![i].pc = next,
                              ![i].steps = Append(@, content),
                              ![i].fails = IF delivered THEN @ ELSE @ + 1]
    /\ UNCHANGED <<config, file>>
    /\ SeqFrame

\* await asyncio.sleep(n)
WaitStep(i, at, next) ==
    /\ runs[i].pc = at
    /\ runs' = [runs EXCEPT ![i].pc = next,
                            ![i].steps = Append(@, "sleep")]
    /\ UNCHANGED <<config, file>>
    /\ SeqFrame

\* Variant: a failed save of the document ends the sequence.
DisableFeatures_Fatal(i) ==
    /\ runs[i].kind = "lock" /\ runs[i].pc = "disable"
    /\ config' = [config EXCEPT !.features = SetFeatureStates(@, FALSE)]
    /\ \E saved \in BOOLEAN :
         /\ file' = IF saved THEN config' ELSE file
         /\ runs' = [runs EXCEPT ![i].toggles = @ + 1,
                                 ![i].pc = IF saved THEN "send_lb" ELSE "Aborted",
                                 ![i].steps = Append(@, "disable"),
                                 ![i].fails = IF saved THEN @ ELSE @ + 1]
    /\ SeqFrame

DisableFeatures(i) == runs[i].kind = "lock" /\ ToggleFeatures(i, "disable", FALSE, "send_lb")

\* Variant: the closing message goes out where the leaderboard query belongs.
SendLb_Closing(i) == runs[i].kind = "lock" /\ SendStep(i, "send_lb", "closing", "settle")

SendLb(i) == runs[i].kind = "lock" /\ SendStep(i, "send_lb", "$lb", "settle")
Settle(i) == runs[i].kind = "lock" /\ WaitStep(i, "settle", "send_closing")

\* Variant: the closing message is sent again and again until it is delivered.
SendClosing_UntilDelivered(i) ==
    /\ runs[i].kind = "lock" /\ runs[i].pc = "send_closing"
    /\ \E delivered \in TypeAndSendOutcomes :
         runs' = [runs EXCEPT ![i].sent = IF delivered THEN Append(@, "closing") ELSE @,
                              ![i].steps = IF delivered
                                           THEN Append(@, "closing")
                                           ELSE @,
                              ![i].perm = IF delivered \/ @ = "again" THEN "ok" ELSE "again",
                              ![i].pc = IF delivered THEN "Done" ELSE "send_closing"]
    /\ UNCHANGED <<config, file>>
    /\ SeqFrame

SendClosing(i) == runs[i].kind = "lock" /\ SendStep(i, "send_closing", "closing", "Done")

\* Variant: the sequence gives up when the reset command cannot be sent.
SendReset_Fatal(i) ==
    /\ runs[i].kind = "unlock" /\ runs[i].pc = "send_reset"
    /\ \E delivered \in TypeAndSendOutcomes :
         runs' = [runs EXCEPT ![i].sent = Append(@, "$reset-economy"),
                              ![i].pc = IF delivered THEN "wait_prompt" ELSE "Aborted",
                              ![i].steps = Append(@, "$reset-economy"),
                              ![i].fails = IF delivered THEN @ ELSE @ + 1]
    /\ UNCHANGED <<config, file>>
    /\ SeqFrame

SendReset(i) == runs[i].kind = "unlock" /\ SendStep(i, "send_reset", "$reset-economy", "wait_prompt")
WaitPrompt(i) == runs[i].kind = "unlock" /\ WaitStep(i, "wait_prompt", "send_yes")
SendYes(i) == runs[i].kind = "unlock" /\ SendStep(i, "send_yes", "yes", "wait_reset")
WaitReset(i) == runs[i].kind = "unlock" /\ WaitStep(i, "wait_reset", "unlock_channel")

\* Variant: the `if not success: return False' after unlock_channel is missing.
UnlockChannel_NoAbort(i) ==
    /\ runs[i].kind = "unlock" /\ runs[i].pc = "unlock_channel"
    /\ \E success \in CallOutcomes["unlock_channel"] :
         runs' = [runs EXCEPT ![i].perm = IF success THEN "ok" ELSE "fail",
                              ![i].applied = IF success THEN Updates(runs) + 1 ELSE 0,
                              ![i].steps = Append(@, "unlock_channel"),
                              ![i].pc = "enable"]
    /\ UNCHANGED <<config, file>>
    /\ SeqFrame

\* _async_unlock_sequence step 4: unlock_channel; return False if it failed.
UnlockChannel(i) ==
    /\ runs[i].kind = "unlock" /\ runs[i].pc = "unlock_channel"
    /\ \E success \in CallOutcomes["unlock_channel"] :
         runs' = [runs EXCEPT ![i].perm = IF success THEN "ok" ELSE "fail",
                              ![i].applied = IF success THEN Updates(runs) + 1 ELSE 0,
                              ![i].steps = Append(@, "unlock_channel"),
                              ![i].pc = IF success THEN "enable" ELSE "Aborted"]
    /\ UNCHANGED <<config, file>>
    /\ SeqFrame

EnableFeatures(i) == runs[i].kind = "unlock" /\ ToggleFeatures(i, "enable", TRUE, "send_opening")
SendOpening(i) == runs[i].kind = "unlock" /\ SendStep(i, "send_opening", "opening", "Done")

Next ==
    \/ SweepStart
    \/ ExecuteTask
    \/ NextMinute
    \/ ReloadConfig
    \/ \E i \in DOMAIN runs : LockChannel(i)
    \/ \E i \in DOMAIN runs : DisableFeatures(i)
    \/ \E i \in DOMAIN runs : SendLb(i)
    \/ \E i \in DOMAIN runs : Settle(i)
    \/ \E i \in DOMAIN runs : SendClosing(i)
    \/ \E i \in DOMAIN runs : SendReset(i)
    \/ \E i \in DOMAIN runs : WaitPrompt(i)
    \/ \E i \in DOMAIN runs : SendYes(i)
    \/ \E i \in DOMAIN runs : WaitReset(i)
    \/ \E i \in DOMAIN runs : UnlockChannel(i)
    \/ \E i \in DOMAIN runs : EnableFeatures(i)
    \/ \E i \in DOMAIN runs : SendOpening(i)

Spec == Init /\ [][Next]_vars

\* The next step of sequence i.  Each sequence runs in a thread of its own
\* whose steps are blocking calls and sleeps that return.
RunStep(i) ==
    /\ i \in DOMAIN runs
    /\ \/ LockChannel(i) \/ DisableFeatures(i) \/ SendLb(i) \/ Settle(i) \/ SendClosing(i)
       \/ SendReset(i) \/ WaitPrompt(i) \/ SendYes(i) \/ WaitReset(i)
       \/ UnlockChannel(i) \/ EnableFeatures(i) \/ SendOpening(i)

SpecLive == Init /\ [][Next]_vars /\ \A i \in 1..MaxRuns : WF_vars(RunStep(i))

(* ------------------------ administrative process ----------------------- *)
\* The task the administrator adds; its time lies outside the minutes the
\* clock of the model passes through.
AdminTask ==
    [name |-> "extra", action |-> "custom", lock_time |-> 1439, message |-> FALSE,
     permissions |-> "extra_overwrites"]

\* ConfigManager.load_config on a missing or undecodable file.
EmptyDocument == [tasks |-> <<>>, roles |-> {}, features |-> [f \in Features |-> "absent"]]

HasTask(document, name) == \E k \in 1..Len(document.tasks) : document.tasks[k].name = name

AdminStart == [pc |-> "idle"]

InitConfig ==
    /\ HttpInit /\ SchedInit /\ LimitIdle /\ CashInit
    /\ roleRun = NoRoleRun /\ calls = <<>> /\ loop = NoLoop
    /\ admin = AdminStart /\ timeParse = NoParse /\ lb = NoLb /\ fetch = NoFetch

AdminFrame ==
    /\ UNCHANGED <<httpVars, limitVars, cashVars>>
    /\ UNCHANGED <<minute, config, last_execution, sweepPos, runs, fired, custom, known_tasks, known_roles>>
    /\ UNCHANGED <<roleRun, calls, loop, timeParse, lb, fetch>>

\* add_task, first half: config = self.load_config()
AdminLoad ==
    /\ admin.pc = "idle"
    /\ \E readable \in BOOLEAN :
         admin' = [pc |-> "loaded", doc |-> IF readable THEN file ELSE EmptyDocument]
    /\ UNCHANGED file
    /\ AdminFrame

\* add_task, second half: the task is put into the document read before and
\* the whole document is written.
AdminSave ==
    /\ admin.pc = "loaded"
    /\ IF HasTask(admin.doc, AdminTask.name)
       THEN admin' = [admin EXCEPT !.pc = "refused"] /\ UNCHANGED file
       ELSE \E saved \in BOOLEAN :
              /\ file' = IF saved THEN [admin.doc EXCEPT !.tasks = Append(@, AdminTask)]
                         ELSE file
              /\ admin' = [admin EXCEPT !.pc = IF saved THEN "saved" ELSE "failed"]
    /\ AdminFrame

NextConfig ==
    \/ Next
    \/ AdminLoad
    \/ AdminSave

SpecConfig == InitConfig /\ [][NextConfig]_vars

(* --------------------------- cumulative limit -------------------------- *)
WEEKDAYS == <<"Monday", "Tuesday", "Wednesday", "Thursday", "Friday", "Saturday", "Sunday">>

\* datetime.weekday() of a date, as the weekday's name.
WeekdayName(date) == WEEKDAYS[((date - 1) % 7) + 1]

\* A value of the amounts table as the document can hold it: a JSON number,
\* a string of decimal digits, a string in scientific notation ('2e1') or
\* text that is no number.
IntAmount(n) == [form |-> "int", mant |-> n, exp |-> 0]
DecAmount(n) == [form |-> "dec", mant |-> n, exp |-> 0]
SciAmount(m, e) == [form |-> "sci", mant |-> m, exp |-> e]
BadAmount == [form |-> "bad", mant |-> 0, exp |-> 0]

RECURSIVE Pow10(_)
Pow10(n) == IF n = 0 THEN 1 ELSE 10 * Pow10(n - 1)

\* parse_amount: int(value) for numbers, int(float(text)) for strings, 0 when
\* the text is no number.
ParseAmount(a) ==
    CASE a.form = "int" -> a.mant
      [] a.form = "dec" -> a.mant
      [] a.form = "sci" -> a.mant * Pow10(a.exp)
      [] OTHER -> 0

\* A time-spec as parse_time_format reads it: 12-hour with am/pm, 24-hour, or
\* matching none of the patterns.
Time12(h, m, mer) == [fmt |-> "12h", h |-> h, m |-> m, mer |-> mer]
Time24(h, m) == [fmt |-> "24h", h |-> h, m |-> m, mer |-> "none"]
BadTime == [fmt |-> "bad", h |-> 0, m |-> 0, mer |-> "none"]

\* Variant: pm adds 12 to every hour, 12 included.
ParseTimeFormat_NoNoon(ts) ==
    IF ts.fmt = "12h"
    THEN [hour |-> IF ts.mer = "pm" THEN ts.h + 12
                   ELSE IF ts.mer = "am" /\ ts.h = 12 THEN 0
                   ELSE ts.h,
          minute |-> ts.m]
    ELSE [hour |-> ts.h, minute |-> ts.m]

\* parse_time_format on a matched spec: the 12-hour to 24-hour conversion.
ParseTimeFormat(ts) ==
    IF ts.fmt = "12h"
    THEN [hour |-> IF ts.mer = "pm" /\ ts.h # 12 THEN ts.h + 12
                   ELSE IF ts.mer = "am" /\ ts.h = 12 THEN 0
                   ELSE ts.h,
          minute |-> ts.m]
    ELSE [hour |-> ts.h, minute |-> ts.m]

\* has_auto_cash_time_passed(current_time); True when the spec does not parse.
HasAutoCashTimePassed(auto_cash_config, hour, min) ==
    IF auto_cash_config.time.fmt = "bad" THEN TRUE
    ELSE LET parsed_time == ParseTimeFormat(auto_cash_config.time)
         IN  \/ hour > parsed_time.hour
             \/ hour = parsed_time.hour /\ min >= parsed_time.minute

\* has_auto_cash_executed_today
HasAutoCashExecutedToday(last, date) == last = date

\* weekday_order.index(current_day_name), counted from 0
IndexOf(order, name) == (CHOOSE i \in 1..Len(order) : order[i] = name) - 1

\* for i in range(n): cumulative += parse_amount(amounts[weekday_order[i]])
RECURSIVE Cumulate(_, _, _, _)
Cumulate(amounts, i, n, cumulative) ==
    IF i >= n THEN cumulative
    ELSE Cumulate(amounts, i + 1, n, cumulative + ParseAmount(amounts[i + 1].amount))

\* Variant: today's amount is counted as soon as the auto-cash time has
\* passed, whether or not auto-cash ran.
CalculateCumulativeLimit_TimeOnly(auto_cash_config, last, date, hour, min) ==
    LET amounts == auto_cash_config.amounts
        weekday_order == [i \in 1..Len(amounts) |-> amounts[i].day]
        current_day_name == WeekdayName(date)
        auto_cash_time_passed == HasAutoCashTimePassed(auto_cash_config, hour, min)
    IN  IF Len(weekday_order) = 0 THEN 0
        ELSE IF \A i \in 1..Len(weekday_order) : weekday_order[i] # current_day_name THEN 0
        ELSE LET current_position == IndexOf(weekday_order, current_day_name)
                 include_today == auto_cash_time_passed
                 effective_position == IF include_today THEN current_position
                                       ELSE current_position - 1
             IN  IF ~include_today /\ effective_position < 0 THEN 0
                 ELSE Cumulate(amounts, 0, effective_position + 1, 0)

\* calculate_cumulative_limit, evaluated with last_auto_cash_execution = last
\* at the given date and time of day.
CalculateCumulativeLimit(auto_cash_config, last, date, hour, min) ==
    LET amounts == auto_cash_config.amounts
        weekday_order == [i \in 1..Len(amounts) |-> amounts[i].day]
        current_day_name == WeekdayName(date)
        auto_cash_time_passed == HasAutoCashTimePassed(auto_cash_config, hour, min)
        auto_cash_executed_today == HasAutoCashExecutedToday(last, date)
    IN  IF Len(weekday_order) = 0 THEN 0
        ELSE IF \A i \in 1..Len(weekday_order) : weekday_order[i] # current_day_name THEN 0
        ELSE LET current_position == IndexOf(weekday_order, current_day_name)
                 include_today == auto_cash_time_passed /\ auto_cash_executed_today
                 effective_position == IF include_today THEN current_position
                                       ELSE current_position - 1
             IN  IF ~include_today /\ effective_position < 0 THEN 0
                 ELSE Cumulate(amounts, 0, effective_position + 1, 0)

\* The amounts tables the limit is evaluated on: every order of up to
\* MaxTableLen of the first TableDays weekdays, each with its amount.
DayAmount ==
    [d \in {WEEKDAYS[i] : i \in 1..TableDays} |->
        CASE d = "Monday" -> IntAmount(10)
          [] d = "Tuesday" -> SciAmount(2, 1)
          [] d = "Wednesday" -> DecAmount(30)
          [] OTHER -> SciAmount(5, 0)]

AmountTables ==
    {<<>>} \cup
    UNION { { [i \in 1..n |-> [day |-> f[i], amount |-> DayAmount[f[i]]]] :
                f \in { g \in [1..n -> DOMAIN DayAmount] :
                          \A i, j \in 1..n : i # j => g[i] # g[j] } } :
            n \in 1..MaxTableLen }

\* The auto-cash time-specs, with the minute of the day each one names.
TimeSpecs ==
    { [spec |-> Time12(12, 0, "am"), at |-> 0],
      [spec |-> Time12(9, 30, "am"), at |-> 570],
      [spec |-> Time12(12, 15, "pm"), at |-> 735],
      [spec |-> Time12(1, 0, "pm"), at |-> 780],
      [spec |-> Time24(14, 30), at |-> 870],
      [spec |-> BadTime, at |-> 0] }

\* Times of day the limit is evaluated at.
ClockTimes ==
    { [hour |-> 0, min |-> 0], [hour |-> 9, min |-> 29], [hour |-> 9, min |-> 30],
      [hour |-> 12, min |-> 20], [hour |-> 13, min |-> 0], [hour |-> 14, min |-> 31],
      [hour |-> 23, min |-> 59] }

LimitInit ==
    /\ limIn \in { [auto_cash |-> [time |-> ts.spec, amounts |-> tbl], at |-> ts.at,
                    last |-> l, date |-> d, hour |-> c.hour, min |-> c.min] :
                     ts \in TimeSpecs, tbl \in AmountTables, c \in ClockTimes,
                     d \in 1..MaxDate, l \in {None} \cup 1..MaxDate }
    /\ limIn.last <= limIn.date
    /\ limOut = [done |-> FALSE, limit |-> 0]

InitLimit == HttpInit /\ SchedInit /\ LimitInit /\ CashInit /\ AuxIdle

\* A caller evaluates calculate_cumulative_limit.
Calculate ==
    /\ ~limOut.done
    /\ limOut' = [done |-> TRUE, limit |-> CalculateCumulativeLimit(limIn.auto_cash, limIn.last,
                                                     limIn.date, limIn.hour, limIn.min)]
    /\ UNCHANGED limIn
    /\ UNCHANGED <<httpVars, schedVars, cashVars, auxVars>>

NextLimit == Calculate

SpecLimit == InitLimit /\ [][NextLimit]_vars

(* --------------------------- time specs as text ------------------------ *)
\* A text is a sequence of one-character strings.
DigitChars == <<"0", "1", "2", "3", "4", "5", "6", "7", "8", "9">>

UpperChars == <<"A", "B", "C", "D", "E", "F", "G", "H", "I", "J", "K", "L", "M", "N", "O", "P", "Q", "R", "S", "T", "U", "V", "W", "X", "Y", "Z">>

LowerChars == <<"a", "b", "c", "d", "e", "f", "g", "h", "i", "j", "k", "l", "m", "n", "o", "p", "q", "r", "s", "t", "u", "v", "w", "x", "y", "z">>

SetMin(S) == CHOOSE x \in S : \A y \in S : x <= y

SetMax(S) == CHOOSE x \in S : \A y \in S : x >= y

CharAt(s, k) == IF k \in 1..Len(s) THEN s[k] ELSE ""

IsDigit(c) == \E k \in 1..Len(DigitChars) : DigitChars[k] = c

\* int() of one digit
DigitVal(c) == (CHOOSE k \in 1..Len(DigitChars) : DigitChars[k] = c) - 1

\* int() of the n digits of s from position i on
IntAt(s, i, n) ==
    IF n = 1 THEN DigitVal(s[i]) ELSE 10 * DigitVal(s[i]) + DigitVal(s[i + 1])

DigitsAt(s, i, n) == \A k \in i..(i + n - 1) : IsDigit(CharAt(s, k))

\* str.lower()
LowerOf(c) ==
    IF \E k \in 1..Len(UpperChars) : UpperChars[k] = c
    THEN LowerChars[CHOOSE k \in 1..Len(UpperChars) : UpperChars[k] = c]
    ELSE c

Lower(s) == [k \in 1..Len(s) |-> LowerOf(s[k])]

\* str.strip()
Strip(s) ==
    LET inked == {k \in 1..Len(s) : s[k] # " "}
    IN  IF inked = {} THEN <<>> ELSE SubSeq(s, SetMin(inked), SetMax(inked))

\* str.startswith(p)
StartsWith(s, p) == Len(p) <= Len(s) /\ SubSeq(s, 1, Len(p)) = p

\* str.replace(p, ''): every occurrence of p is taken out, from the left.
RECURSIVE Remove(_, _)
Remove(s, p) ==
    IF Len(s) < Len(p) THEN s
    ELSE IF StartsWith(s, p) THEN Remove(SubSeq(s, Len(p) + 1, Len(s)), p)
    ELSE <<s[1]>> \o Remove(Tail(s), p)

\* The weekdays dictionary, in the order it is written and iterated.
WeekdayTable ==
    << [name |-> <<"m", "o", "n", "d", "a", "y">>, num |-> 0],
       [name |-> <<"m", "o", "n">>, num |-> 0],
       [name |-> <<"t", "u", "e", "s", "d", "a", "y">>, num |-> 1],
       [name |-> <<"t", "u", "e">>, num |-> 1],
       [name |-> <<"t", "u", "e", "s">>, num |-> 1],
       [name |-> <<"w", "e", "d", "n", "e", "s", "d", "a", "y">>, num |-> 2],
       [name |-> <<"w", "e", "d">>, num |-> 2],
       [name |-> <<"t", "h", "u", "r", "s", "d", "a", "y">>, num |-> 3],
       [name |-> <<"t", "h", "u">>, num |-> 3],
       [name |-> <<"t", "h", "u", "r">>, num |-> 3],
       [name |-> <<"t", "h", "u", "r", "s">>, num |-> 3],
       [name |-> <<"f", "r", "i", "d", "a", "y">>, num |-> 4],
       [name |-> <<"f", "r", "i">>, num |-> 4],
       [name |-> <<"s", "a", "t", "u", "r", "d", "a", "y">>, num |-> 5],
       [name |-> <<"s", "a", "t">>, num |-> 5],
       [name |-> <<"s", "u", "n", "d", "a", "y">>, num |-> 6],
       [name |-> <<"s", "u", "n">>, num |-> 6] >>

\* weekday = None
NoWeekday == 0 - 1

\* Where \s* ends when it starts at position k.
SkipSpaces(s, k) ==
    LET rest == {j \in k..Len(s) : s[j] # " "}
    IN  IF rest = {} THEN Len(s) + 1 ELSE SetMin(rest)

\* (am|pm) at position k
MeridiemAt(s, k) ==
    IF CharAt(s, k) = "a" /\ CharAt(s, k + 1) = "m" THEN "am"
    ELSE IF CharAt(s, k) = "p" /\ CharAt(s, k + 1) = "m" THEN "pm"
    ELSE "none"

\* The places <<i, n>> at which each pattern matches with an hour of n digits
\* that starts at position i.
MatchesHourMinuteMeridiem(s) ==
    { p \in (1..Len(s)) \X {1, 2} :
        /\ DigitsAt(s, p[1], p[2])
        /\ CharAt(s, p[1] + p[2]) = ":"
        /\ DigitsAt(s, p[1] + p[2] + 1, 2)
        /\ MeridiemAt(s, SkipSpaces(s, p[1] + p[2] + 3)) # "none" }

MatchesHourMeridiem(s) ==
    { p \in (1..Len(s)) \X {1, 2} :
        /\ DigitsAt(s, p[1], p[2])
        /\ MeridiemAt(s, SkipSpaces(s, p[1] + p[2])) # "none" }

MatchesHourMinute(s) ==
    { p \in (1..Len(s)) \X {1, 2} :
        /\ DigitsAt(s, p[1], p[2])
        /\ CharAt(s, p[1] + p[2]) = ":"
        /\ DigitsAt(s, p[1] + p[2] + 1, 2) }

\* re.search: the leftmost place, and there the longer hour (\d{1,2} is greedy).
Leftmost(P) ==
    CHOOSE p \in P : \A q \in P : p[1] < q[1] \/ (p[1] = q[1] /\ p[2] >= q[2])

\* The loop over time_patterns: what the first pattern that matches captures.
MatchTime(s) ==
    IF MatchesHourMinuteMeridiem(s) # {}
    THEN LET p == Leftmost(MatchesHourMinuteMeridiem(s))
         IN  Time12(IntAt(s, p[1], p[2]), IntAt(s, p[1] + p[2] + 1, 2),
                    MeridiemAt(s, SkipSpaces(s, p[1] + p[2] + 3)))
    ELSE IF MatchesHourMeridiem(s) # {}
    THEN LET p == Leftmost(MatchesHourMeridiem(s))
         IN  Time12(IntAt(s, p[1], p[2]), 0, MeridiemAt(s, SkipSpaces(s, p[1] + p[2])))
    ELSE IF MatchesHourMinute(s) # {}
    THEN LET p == Leftmost(MatchesHourMinute(s))
         IN  Time24(IntAt(s, p[1], p[2]), IntAt(s, p[1] + p[2] + 1, 2))
    ELSE BadTime

\* parse_time_format(time_str); ok = FALSE stands for the ValueError.
ParseTimeString(text) ==
    LET time_str == Lower(Strip(text))
        hits == {k \in 1..Len(WeekdayTable) : StartsWith(time_str, WeekdayTable[k].name)}
        weekday == IF hits = {} THEN NoWeekday ELSE WeekdayTable[SetMin(hits)].num
        time_part == IF hits = {} THEN time_str
                     ELSE Strip(Remove(time_str, WeekdayTable[SetMin(hits)].name))
        match == MatchTime(time_part)
    IN  IF match.fmt = "bad"
        THEN [ok |-> FALSE, hour |-> 0, minute |-> 0, weekday |-> NoWeekday]
        ELSE [ok |-> TRUE, hour |-> ParseTimeFormat(match).hour,
              minute |-> ParseTimeFormat(match).minute, weekday |-> weekday]

\* The time-specs the function is given: an optional weekday word, an hour,
\* an optional minute part and an optional meridiem, and a few other texts.
DayWords ==
    { <<>>, <<"M", "o", "n", "d", "a", "y", " ">>,
      <<"m", "o", "n", " ">>,
      <<"t", "u", "e", "s", " ">>,
      <<"T", "h", "u", "r", "s", " ">>,
      <<"s", "u", "n", "d", "a", "y", " ">>,
      <<"s", "a", "t">> }

\* str(n)
Decimal(n) ==
    IF n < 10 THEN <<DigitChars[n + 1]>>
    ELSE <<DigitChars[(n \div 10) + 1], DigitChars[(n % 10) + 1]>>

HourTexts == {Decimal(n) : n \in 0..MaxHourText}

MinuteTexts == {<<>>} \cup {<<":">> \o Decimal(n \div 10) \o Decimal(n % 10) : n \in {0, 5, 30, 59, 70}}

MeridiemTexts == {<<>>, <<"a", "m">>, <<"p", "m">>, <<" ", "P", "M">>}

OtherTexts ==
    { <<"g", "a", "r", "b", "a", "g", "e">>,
      <<" ", " ", "1", "4", ":", "3", "0", " ", " ">>,
      <<"1", "0", "3", "0", "p", "m">>,
      <<"1", "2", "3", ":", "4", "5">>,
      <<"n", "o", "o", "n">>,
      <<"9", " ", ":", " ", "3", "0">> }

TimeTexts ==
    {d \o h \o m \o mer : d \in DayWords, h \in HourTexts, m \in MinuteTexts, mer \in MeridiemTexts}
        \cup OtherTexts

InitParse ==
    /\ HttpInit /\ SchedInit /\ LimitIdle /\ CashInit
    /\ roleRun = NoRoleRun /\ calls = <<>> /\ loop = NoLoop
    /\ admin = NoAdmin /\ lb = NoLb /\ fetch = NoFetch
    /\ timeParse \in {[pc |-> "given", text |-> t] : t \in TimeTexts}

\* A caller (should_execute, has_auto_cash_time_passed) parses the time-spec.
ParseTime ==
    /\ timeParse.pc = "given"
    /\ timeParse' = [pc |-> "returned", text |-> timeParse.text,
                     result |-> ParseTimeString(timeParse.text)]
    /\ UNCHANGED <<httpVars, schedVars, limitVars, cashVars>>
    /\ UNCHANGED <<roleRun, calls, loop, admin, lb, fetch>>

NextParse == ParseTime

SpecParse == InitParse /\ [][NextParse]_vars

(* ------------------------- leaderboard responses ----------------------- *)
\* p in s
Contains(s, p) == \E i \in 1..(Len(s) - Len(p) + 1) : SubSeq(s, i, i + Len(p) - 1) = p

\* re.match(r'^\*?\*?1[\.\)\:]', line)
MatchesRankOne(s) ==
    \E k \in 0..2 :
        /\ \A j \in 1..k : CharAt(s, j) = "*"
        /\ CharAt(s, k + 1) = "1"
        /\ CharAt(s, k + 2) \in {".", ")", ":"}

\* Variant: every line is taken for the line of rank 1.
IsFirst_AnyLine(line) == Len(line) >= 0

\* is_first: the line denotes rank 1.
IsFirst(line) ==
    \/ StartsWith(line, <<"*", "*", "1", ".", "*", "*">>)
    \/ StartsWith(line, <<"*", "*", "1", "*", "*">>)
    \/ StartsWith(line, <<"1", ".">>)
    \/ StartsWith(line, <<"1", ")">>)
    \/ Contains(line, <<"*", "*", "1", ".", "*", "*">>)
    \/ Contains(line, <<"*", "*", "1", "*", "*", ".">>)
    \/ MatchesRankOne(line)

\* How many digits follow one another from position i on.
DigitRun(s, i) == SetMax({n \in 0..(Len(s) - i + 1) : DigitsAt(s, i, n)})

\* How many groups ,\d{3} follow one another from position k on.
GroupsAt(s, k) ==
    SetMax({g \in 0..Len(s) :
              \A j \in 0..(g - 1) : CharAt(s, k + 4 * j) = "," /\ DigitsAt(s, k + 4 * j + 1, 3)})

\* re.findall(r'(\d{1,3}(?:,\d{3})*|\d{4,})', s) from position i on: at a
\* digit the first alternative takes up to three digits and the groups that
\* follow, and the search goes on behind them.
RECURSIVE FindAllPrimary(_, _)
FindAllPrimary(s, i) ==
    IF i > Len(s) THEN <<>>
    ELSE IF IsDigit(s[i])
    THEN LET n == IF DigitRun(s, i) < 3 THEN DigitRun(s, i) ELSE 3
             e == i + n + 4 * GroupsAt(s, i + n)
         IN  <<SubSeq(s, i, e - 1)>> \o FindAllPrimary(s, e)
    ELSE FindAllPrimary(s, i + 1)

\* re.findall(r'(\d{1,3}(?:,\d{3})+|\d{6,})', s) from position i on.
\* A variant whose second alternative is \d{4,}.
RECURSIVE FindAllFallback_FourDigits(_, _)
FindAllFallback_FourDigits(s, i) ==
    IF i > Len(s) THEN <<>>
    ELSE LET heads == {n \in 1..3 : DigitsAt(s, i, n) /\ GroupsAt(s, i + n) >= 1}
         IN  IF heads # {}
             THEN LET e == i + SetMax(heads) + 4 * GroupsAt(s, i + SetMax(heads))
                  IN  <<SubSeq(s, i, e - 1)>> \o FindAllFallback_FourDigits(s, e)
             ELSE IF DigitRun(s, i) >= 4
             THEN <<SubSeq(s, i, i + DigitRun(s, i) - 1)>>
                      \o FindAllFallback_FourDigits(s, i + DigitRun(s, i))
             ELSE FindAllFallback_FourDigits(s, i + 1)

RECURSIVE FindAllFallback(_, _)
FindAllFallback(s, i) ==
    IF i > Len(s) THEN <<>>
    ELSE LET heads == {n \in 1..3 : DigitsAt(s, i, n) /\ GroupsAt(s, i + n) >= 1}
         IN  IF heads # {}
             THEN LET e == i + SetMax(heads) + 4 * GroupsAt(s, i + SetMax(heads))
                  IN  <<SubSeq(s, i, e - 1)>> \o FindAllFallback(s, e)
             ELSE IF DigitRun(s, i) >= 6
             THEN <<SubSeq(s, i, i + DigitRun(s, i) - 1)>>
                      \o FindAllFallback(s, i + DigitRun(s, i))
             ELSE FindAllFallback(s, i + 1)

\* match.replace(',', '')
Clean(token) == SelectSeq(token, LAMBDA c : c # ",")

\* int(clean)
RECURSIVE IntOf(_)
IntOf(digits) ==
    IF Len(digits) = 0 THEN 0
    ELSE 10 * IntOf(SubSeq(digits, 1, Len(digits) - 1)) + DigitVal(digits[Len(digits)])

\* The amounts of the rank-1 line: the tokens of at least 4 digits.
LineAmounts(line) ==
    LET tokens == FindAllPrimary(line, 1)
    IN  {IntOf(Clean(tokens[k])) : k \in {j \in 1..Len(tokens) : Len(Clean(tokens[j])) >= 4}}

FallbackAmounts(line) ==
    LET tokens == FindAllFallback(line, 1)
    IN  {IntOf(Clean(tokens[k])) : k \in 1..Len(tokens)}

NoAmount == [found |-> FALSE, amount |-> 0]

\* parse_lb_cash_response(message_data): the message has an embed or not,
\* and the description of its first embed is given as its lines.
ParseLbCashResponse(message) ==
    IF ~message.embeds \/ message.lines = << <<>> >> THEN NoAmount
    ELSE LET lines == message.lines
             hits == {k \in 1..Len(lines) :
                        /\ Strip(lines[k]) # <<>>
                        /\ IsFirst(Strip(lines[k]))
                        /\ LineAmounts(Strip(lines[k])) # {}}
             rest == UNION {FallbackAmounts(lines[k]) : k \in 1..Len(lines)}
         IN  IF hits # {}
             THEN [found |-> TRUE, amount |-> SetMax(LineAmounts(Strip(lines[SetMin(hits)])))]
             ELSE IF rest # {} THEN [found |-> TRUE, amount |-> SetMax(rest)]
             ELSE NoAmount

\* The amounts written into the leaderboards, each with the number it denotes.
AmountTexts ==
    { [text |-> <<"1", ",", "2", "3", "4", ",", "5", "6", "7">>, value |-> 1234567, separated |-> TRUE],
      [text |-> <<"1", "2", ",", "3", "4", "5">>, value |-> 12345, separated |-> TRUE],
      [text |-> <<"1", ",", "0", "0", "0">>, value |-> 1000, separated |-> TRUE],
      [text |-> <<"1", "2", "3", "4", "5">>, value |-> 12345, separated |-> FALSE],
      [text |-> <<"1", "2", "3", "4">>, value |-> 1234, separated |-> FALSE],
      [text |-> <<"1", "2", "3", "4", "5", "6", "7">>, value |-> 1234567, separated |-> FALSE],
      [text |-> <<"5", "0", "0">>, value |-> 500, separated |-> TRUE],
      [text |-> <<"9", "9", "9">>, value |-> 999, separated |-> TRUE] }

RankOneMarkers == {<<"*", "*", "1", ".", "*", "*", " ">>, <<"1", ")", " ">>, <<"*", "1", ":", " ">>}

\* A rank-1 line: marker, player, one amount or two.
RankOneLine(marker, a, b) ==
    marker \o <<"X", " ">> \o a.text
        \o (IF b.value = 0 THEN <<>> ELSE <<" ", "+", " ">> \o b.text) \o <<" ", "c", "a", "s", "h">>

NoSecond == [text |-> <<>>, value |-> 0, separated |-> TRUE]

SecondAmounts == {NoSecond} \cup {a \in AmountTexts : a.value \in {1000, 999}}

OtherLines == {<<"*", "*", "2", ".", "*", "*", " ", "Y", " ">> \o a.text \o <<" ", "c", "a", "s", "h">> : a \in {x \in AmountTexts : x.value \in {500, 1234567}}}

Headers == {<<>>, << <<"C", "a", "s", "h", " ", "8", ",", "8", "8", "8", ",", "8", "8", "8">> >>}

Leaderboard(header, marker, a, b, other) ==
    [embeds |-> TRUE, lines |-> header \o <<RankOneLine(marker, a, b), other>>]

OtherMessages ==
    { [embeds |-> FALSE, lines |-> << <<>> >>],
      [embeds |-> TRUE, lines |-> << <<>> >>],
      [embeds |-> TRUE, lines |-> << <<"*", "*", "1", ".", "*", "*", " ", "P", "l", "a", "y", "e", "r", "X", " ", "-", " ", "1", ",", "2", "3", "4", ",", "5", "6", "7", " ", "c", "a", "s", "h">>, <<"*", "*", "2", ".", "*", "*", " ", "P", "l", "a", "y", "e", "r", "Y", " ", "-", " ", "5", "0", "0", " ", "c", "a", "s", "h">> >>],
      [embeds |-> TRUE, lines |-> << <<"*", "*", "2", ".", "*", "*", " ", "Y", " ", "5", "0", "0">> >>] }

\* A leaderboard without a line of rank 1: the lines of rank 2 and rank 3.
Unranked(a, b) ==
    [embeds |-> TRUE,
     lines |-> << <<"*", "*", "2", ".", "*", "*", " ", "Y", " ">> \o a.text \o <<" ", "c", "a", "s", "h">>,
                  <<"3", ")", " ", "Z", " ">> \o b.text >>]

Messages ==
    {Leaderboard(h, m, a, b, o) :
        h \in Headers, m \in RankOneMarkers, a \in AmountTexts, b \in SecondAmounts, o \in OtherLines}
        \cup {Unranked(a, b) : a \in AmountTexts, b \in AmountTexts}
        \cup OtherMessages

InitLb ==
    /\ HttpInit /\ SchedInit /\ LimitIdle /\ CashInit
    /\ roleRun = NoRoleRun /\ calls = <<>> /\ loop = NoLoop
    /\ admin = NoAdmin /\ timeParse = NoParse /\ fetch = NoFetch
    /\ lb \in {[pc |-> "given", message |-> m] : m \in Messages}

\* check_cash_limit parses the message it fetched.
ParseLb ==
    /\ lb.pc = "given"
    /\ lb' = [pc |-> "returned", message |-> lb.message,
              result |-> ParseLbCashResponse(lb.message)]
    /\ UNCHANGED <<httpVars, schedVars, limitVars, cashVars>>
    /\ UNCHANGED <<roleRun, calls, loop, admin, timeParse, fetch>>

NextLb == ParseLb

SpecLb == InitLb /\ [][NextLb]_vars

(* --------------------- fetching the leaderboard reply ------------------ *)
\* What session.get can give fetch_latest_messages: a 429 with or without a
\* retry_after, a 200 with the latest messages (their authors, newest
\* first), another status, or an exception (no status).
FetchResponses ==
    {[status |-> 429, retry_after |-> r, authors |-> <<>>] : r \in (1..MaxRetryAfter) \cup {None}}
        \cup {[status |-> 200, retry_after |-> None, authors |-> a] :
                 a \in {<<>>, <<"user">>, <<"bot">>, <<"user", "bot">>}}
        \cup {[status |-> 403, retry_after |-> None, authors |-> <<>>],
              [status |-> None, retry_after |-> None, authors |-> <<>>]}

\* The sleep of _handle_rate_limit for a 429: retry_after, 5 without one.
RetryAfter(response) ==
    IF response.retry_after = None THEN DefaultRetryAfter ELSE response.retry_after

InitFetch ==
    /\ HttpInit /\ SchedInit /\ LimitIdle /\ CashInit
    /\ roleRun = NoRoleRun /\ calls = <<>> /\ loop = NoLoop
    /\ admin = NoAdmin /\ timeParse = NoParse /\ lb = NoLb
    /\ fetch = [pc |-> "call", depth |-> 1, requests |-> 0, slept |-> 0]

FetchFrame ==
    /\ UNCHANGED <<httpVars, schedVars, limitVars, cashVars>>
    /\ UNCHANGED <<roleRun, calls, loop, admin, timeParse, lb>>

\* Variant: the request is repeated in a loop, within the same call.
FetchLatestMessages_Loop ==
    /\ fetch.pc = "call" /\ fetch.depth <= RecursionLimit
    /\ fetch.requests <= RecursionLimit
    /\ \E response \in FetchResponses :
         fetch' = IF response.status = 429
                  THEN [fetch EXCEPT !.requests = @ + 1,
                                     !.slept = @ + RetryAfter(response) + 2]
                  ELSE [pc |-> "returned", depth |-> fetch.depth,
                        requests |-> fetch.requests + 1, slept |-> fetch.slept,
                        messages |-> IF response.status = 200
                                     THEN [ok |-> TRUE, authors |-> response.authors]
                                     ELSE [ok |-> FALSE, authors |-> <<>>]]
    /\ FetchFrame

\* One call of fetch_latest_messages: the request; after a 429 the sleep of
\* _handle_rate_limit, 2 seconds more, and the call of itself, whose result
\* it returns; the messages after a 200; None after any other status and
\* after an exception.
FetchLatestMessages ==
    /\ fetch.pc = "call" /\ fetch.depth <= RecursionLimit
    /\ \E response \in FetchResponses :
         fetch' = IF response.status = 429
                  THEN [fetch EXCEPT !.depth = @ + 1, !.requests = @ + 1,
                                     !.slept = @ + RetryAfter(response) + 2]
                  ELSE [pc |-> "returned", depth |-> fetch.depth,
                        requests |-> fetch.requests + 1, slept |-> fetch.slept,
                        messages |-> IF response.status = 200
                                     THEN [ok |-> TRUE, authors |-> response.authors]
                                     ELSE [ok |-> FALSE, authors |-> <<>>]]
    /\ FetchFrame

\* The call that passes the interpreter's recursion limit raises
\* RecursionError inside the try block; `except Exception' returns None,
\* and so does every call below it.
FetchOverflow ==
    /\ fetch.pc = "call" /\ fetch.depth > RecursionLimit
    /\ fetch' = [pc |-> "returned", depth |-> fetch.depth, requests |-> fetch.requests,
                 slept |-> fetch.slept, messages |-> [ok |-> FALSE, authors |-> <<>>]]
    /\ FetchFrame

\* fetch_latest_bot_message: the first message whose author is the bot;
\* check_cash_limit returns when there is none.
FetchLatestBotMessage ==
    /\ fetch.pc = "returned"
    /\ fetch' = [pc |-> "done", depth |-> fetch.depth, requests |-> fetch.requests,
                 slept |-> fetch.slept, messages |-> fetch.messages,
                 bot_message |-> \E k \in 1..Len(fetch.messages.authors) :
                                    fetch.messages.authors[k] = "bot"]
    /\ FetchFrame

NextFetch == FetchLatestMessages \/ FetchOverflow \/ FetchLatestBotMessage

SpecFetch == InitFetch /\ [][NextFetch]_vars

(* ----------------------- auto-cash and cash checks --------------------- *)
\* should_execute for a time-spec without weekday; ValueError ("raise") when
\* the spec matches no pattern.
ShouldExecuteTime(ts, hour, min) ==
    IF ts.fmt = "bad" THEN "raise"
    ELSE LET target == ParseTimeFormat(ts)
         IN  IF hour = target.hour /\ min = target.minute THEN "yes" ELSE "no"

\* amounts.get(weekday_name): the table's value for the day, 0 standing for None.
AmountFor(amounts, day) ==
    IF \E i \in 1..Len(amounts) : amounts[i].day = day
    THEN ParseAmount(amounts[CHOOSE i \in 1..Len(amounts) : amounts[i].day = day].amount)
    ELSE 0

\* Minutes from t1 to t2.
MinutesBetween(t1, t2) ==
    (t2.date - t1.date) * 1440
        + (DaySlots[t2.slot].hour * 60 + DaySlots[t2.slot].min)
        - (DaySlots[t1.slot].hour * 60 + DaySlots[t1.slot].min)

CashFrame ==
    UNCHANGED <<httpVars, limitVars, auxVars>> /\ UNCHANGED <<minute, last_execution, sweepPos, runs, fired, custom, known_tasks, known_roles>>

\* Time passes, at any point of the loop.
CashTick ==
    /\ clock' = IF clock.slot < Len(DaySlots) THEN [clock EXCEPT !.slot = @ + 1]
                ELSE [date |-> clock.date + 1, slot |-> 1]
    /\ clock'.date <= MaxCashDate
    /\ UNCHANGED <<last_check_minute, cashPc, auto_cash, last_auto_cash_execution,
                   last_cash_check_time, granted, lastCheck, cycle,
                   deliveries, last_role_cash_time, roleCycle>>
    /\ UNCHANGED <<config, file>>
    /\ CashFrame

\* run(): the loop finds a minute it has not swept and calls check_all_tasks.
CashSweepStart ==
    /\ cashPc = "idle"
    /\ clock # last_check_minute
    /\ last_check_minute' = clock
    /\ cashPc' = "auto_cash"
    /\ UNCHANGED <<clock, auto_cash, last_auto_cash_execution, last_cash_check_time,
                   granted, lastCheck, cycle, deliveries, last_role_cash_time, roleCycle>>
    /\ UNCHANGED <<config, file>>
    /\ CashFrame

\* Variant: the run is recorded whatever type_and_send returned.
CheckAutoCash_RecordAlways ==
    /\ cashPc = "auto_cash"
    /\ cashPc' = "cash_checks"
    /\ LET execution_key == clock.date
           t == DaySlots[clock.slot]
       IN  IF \/ config.features["auto_cash"] # "on"
              \/ last_auto_cash_execution = execution_key
              \/ ShouldExecuteTime(auto_cash.time, t.hour, t.min) # "yes"
              \/ AmountFor(auto_cash.amounts, WeekdayName(clock.date)) = 0
           THEN UNCHANGED <<last_auto_cash_execution, granted, deliveries>>
           ELSE \E result \in TypeAndSendOutcomes :
                  /\ last_auto_cash_execution' = execution_key
                  /\ granted' = IF result THEN granted \cup {clock.date} ELSE granted
                  /\ deliveries' = IF result THEN [deliveries EXCEPT ![clock.date] = @ + 1]
                                   ELSE deliveries
    /\ UNCHANGED <<clock, last_check_minute, auto_cash, last_cash_check_time, lastCheck, cycle,
                   last_role_cash_time, roleCycle>>
    /\ UNCHANGED <<config, file>>
    /\ CashFrame

\* check_auto_cash, called by check_all_tasks after the tasks.
CheckAutoCash ==
    /\ cashPc = "auto_cash"
    /\ cashPc' = "cash_checks"
    /\ LET execution_key == clock.date
           t == DaySlots[clock.slot]
       IN  IF \/ config.features["auto_cash"] # "on"
              \/ last_auto_cash_execution = execution_key
              \/ ShouldExecuteTime(auto_cash.time, t.hour, t.min) # "yes"
              \/ AmountFor(auto_cash.amounts, WeekdayName(clock.date)) = 0
           THEN UNCHANGED <<last_auto_cash_execution, granted, deliveries>>
           ELSE \E result \in TypeAndSendOutcomes :
                  /\ last_auto_cash_execution' =
                        IF result THEN execution_key ELSE last_auto_cash_execution
                  /\ granted' = IF result THEN granted \cup {clock.date} ELSE granted
                  /\ deliveries' = IF result THEN [deliveries EXCEPT ![clock.date] = @ + 1]
                                   ELSE deliveries
    /\ UNCHANGED <<clock, last_check_minute, auto_cash, last_cash_check_time, lastCheck, cycle,
                   last_role_cash_time, roleCycle>>
    /\ UNCHANGED <<config, file>>
    /\ CashFrame

\* A cash-check cycle begins at the time t; `early' tells that less than the
\* interval has passed since the cycle before began.
BeginCycle(c, t, outcome) ==
    [start |-> t, outcome |-> outcome, current |-> 0, limit |-> 0, topups |-> <<>>,
     prevOutcome |-> c.outcome,
     early |-> c.start # NoTime /\ MinutesBetween(c.start, t) < check_interval_minutes]

\* A role distribution begins at the time t; `prev' is the time the one
\* before began.
BeginRoleCycle(c, t) == [start |-> t, prev |-> c.start]

\* Variant: the time of the check is kept only when the leaderboard query
\* went out.
CheckCashChecksSchedule_KeepOnSuccess ==
    /\ cashPc = "cash_checks"
    /\ IF config.features["cash_checks"] # "on"
       THEN cashPc' = "role_cash" /\ UNCHANGED <<last_cash_check_time, cycle>>
       ELSE LET should_check ==
                    \/ last_cash_check_time = NoTime
                    \/ MinutesBetween(last_cash_check_time, clock) >= check_interval_minutes
            IN  IF should_check
                THEN \E lb_response \in TypeAndSendOutcomes :
                       /\ last_cash_check_time' =
                             IF lb_response THEN clock ELSE last_cash_check_time
                       /\ cashPc' = IF lb_response THEN "limit" ELSE "role_cash"
                       /\ cycle' = BeginCycle(cycle, clock,
                                      IF lb_response THEN "running" ELSE "lb_failed")
                ELSE cashPc' = "role_cash" /\ UNCHANGED <<last_cash_check_time, cycle>>
    /\ UNCHANGED <<clock, last_check_minute, auto_cash, last_auto_cash_execution,
                   granted, lastCheck, deliveries, last_role_cash_time, roleCycle>>
    /\ UNCHANGED <<config, file>>
    /\ CashFrame

\* check_cash_checks_schedule up to the '$lb -cash' command of check_cash_limit.
\* last_cash_check_time is assigned when check_cash_limit has returned, with
\* the time read here; nothing reads it in between.
CheckCashChecksSchedule ==
    /\ cashPc = "cash_checks"
    /\ IF config.features["cash_checks"] # "on"
       THEN cashPc' = "role_cash" /\ UNCHANGED <<last_cash_check_time, cycle>>
       ELSE LET should_check ==
                    \/ last_cash_check_time = NoTime
                    \/ MinutesBetween(last_cash_check_time, clock) >= check_interval_minutes
            IN  IF should_check
                THEN \E lb_response \in TypeAndSendOutcomes :
                       /\ last_cash_check_time' = clock
                       /\ cashPc' = IF lb_response THEN "limit" ELSE "role_cash"
                       /\ cycle' = BeginCycle(cycle, clock,
                                      IF lb_response THEN "running" ELSE "lb_failed")
                ELSE cashPc' = "role_cash" /\ UNCHANGED <<last_cash_check_time, cycle>>
    /\ UNCHANGED <<clock, last_check_minute, auto_cash, last_auto_cash_execution,
                   granted, lastCheck, deliveries, last_role_cash_time, roleCycle>>
    /\ UNCHANGED <<config, file>>
    /\ CashFrame

\* What fetch_latest_bot_message and parse_lb_cash_response can give: no
\* message of the bot, a message without an amount, or the top amount.
\* Amounts are on the scale of the amounts table.
LeaderboardReplies ==
    { [kind |-> "no_message", amount |-> 0], [kind |-> "unparsed", amount |-> 0] }
        \cup { [kind |-> "amount", amount |-> n] : n \in {25, 60} }

\* The top-up commands check_cash_limit issues for an amount and a limit:
\* command_template.format(amount=difference), handed to type_and_send.
TopUps_WholeLimit(current_amount, limit) ==
    IF current_amount < limit THEN << [command |-> "add-cash", amount |-> limit] >>
    ELSE <<>>

TopUps(current_amount, limit) ==
    IF current_amount < limit
    THEN << [command |-> "add-cash", amount |-> limit - current_amount] >>
    ELSE <<>>

\* check_cash_limit after the wait for the reply: the leaderboard is fetched
\* and parsed, and on success the limit is calculated at the time it is then
\* and the top-up, if any, is sent.
CheckCashLimit ==
    /\ cashPc = "limit"
    /\ cashPc' = "role_cash"
    /\ \E reply \in LeaderboardReplies :
         IF reply.kind = "amount"
         THEN LET limit == CalculateCumulativeLimit(auto_cash, last_auto_cash_execution,
                              clock.date, DaySlots[clock.slot].hour, DaySlots[clock.slot].min)
              IN  /\ lastCheck' =
                        [done |-> TRUE, limit |-> limit,
                         date |-> clock.date, last |-> last_auto_cash_execution,
                         granted |-> granted]
                  /\ \E result \in TypeAndSendOutcomes :
                        cycle' = [cycle EXCEPT !.outcome = "checked",
                                               !.current = reply.amount,
                                               !.limit = limit,
                                               !.topups = TopUps(reply.amount, limit)]
         ELSE /\ UNCHANGED lastCheck
              /\ cycle' = [cycle EXCEPT !.outcome = reply.kind]
    /\ UNCHANGED <<clock, last_check_minute, auto_cash, last_auto_cash_execution,
                   last_cash_check_time, granted, deliveries, last_role_cash_time, roleCycle>>
    /\ UNCHANGED <<config, file>>
    /\ CashFrame

\* Variant: the time of the run is kept only from the second run on.
CheckRoleCashSchedule_ForgetFirst ==
    /\ cashPc = "role_cash"
    /\ cashPc' = "idle"
    /\ IF config.features["add_cash_to_roles"] # "on"
       THEN UNCHANGED <<last_role_cash_time, roleCycle>>
       ELSE LET should_run ==
                    \/ last_role_cash_time = NoTime
                    \/ MinutesBetween(last_role_cash_time, clock) >= role_interval_minutes
            IN  IF should_run
                THEN /\ last_role_cash_time' = IF roleCycle.start = NoTime THEN NoTime ELSE clock
                     /\ roleCycle' = BeginRoleCycle(roleCycle, clock)
                ELSE UNCHANGED <<last_role_cash_time, roleCycle>>
    /\ UNCHANGED <<clock, last_check_minute, auto_cash, last_auto_cash_execution,
                   last_cash_check_time, granted, lastCheck, cycle, deliveries>>
    /\ UNCHANGED <<config, file>>
    /\ CashFrame

\* check_role_cash_schedule, called by check_all_tasks after the cash checks:
\* when the feature is enabled and no run is recorded or the interval has
\* passed since the recorded one, add_cash_to_all_roles runs and the time
\* read before it is recorded, whatever the distribution returned.
CheckRoleCashSchedule ==
    /\ cashPc = "role_cash"
    /\ cashPc' = "idle"
    /\ IF config.features["add_cash_to_roles"] # "on"
       THEN UNCHANGED <<last_role_cash_time, roleCycle>>
       ELSE LET should_run ==
                    \/ last_role_cash_time = NoTime
                    \/ MinutesBetween(last_role_cash_time, clock) >= role_interval_minutes
            IN  IF should_run
                THEN /\ last_role_cash_time' = clock
                     /\ roleCycle' = BeginRoleCycle(roleCycle, clock)
                ELSE UNCHANGED <<last_role_cash_time, roleCycle>>
    /\ UNCHANGED <<clock, last_check_minute, auto_cash, last_auto_cash_execution,
                   last_cash_check_time, granted, lastCheck, cycle, deliveries>>
    /\ UNCHANGED <<config, file>>
    /\ CashFrame

\* _set_feature_states(enabled), as a lock or an unlock sequence calls it from
\* the event-loop thread.
SetAllFeatures(enabled) ==
    /\ config' = [config EXCEPT !.features = SetFeatureStates(@, enabled)]
    /\ \E saved \in BOOLEAN : file' = IF saved THEN config' ELSE file
    /\ UNCHANGED cashVars
    /\ CashFrame

NextCash ==
    \/ CashTick
    \/ CashSweepStart
    \/ CheckAutoCash
    \/ CheckCashChecksSchedule
    \/ CheckCashLimit
    \/ CheckRoleCashSchedule
    \/ \E enabled \in BOOLEAN : SetAllFeatures(enabled)
    \/ ReloadConfig

\* The document has no add_cash_to_roles section.
InitCash ==
    /\ HttpInit /\ SchedStart(Document({"add_cash_to_roles"}))
    /\ LimitIdle /\ CashInit /\ AuxIdle

SpecCash == InitCash /\ [][NextCash]_vars

\* The document has no auto_cash section; the scheduler is started on the
\* day before the last.
InitSchedules ==
    /\ HttpInit /\ SchedStart(Document({"auto_cash"}))
    /\ LimitIdle /\ CashStart(MaxCashDate - 1) /\ AuxIdle

SpecSchedules == InitSchedules /\ [][NextCash]_vars

(* --------------------------- role distribution ------------------------- *)
\* The value of a role name in config['add_cash_to_roles']['roles']: a mapping
\* from role-ids to amounts, in document order, or something that is no
\* mapping.
RoleIds(ids) == [kind |-> "dict", ids |-> ids]
NotADict == [kind |-> "other", ids |-> <<>>]

RoleData ==
    { NotADict,
      RoleIds(<<>>),
      RoleIds(<< [role_id |-> "r1", amount |-> IntAmount(100)] >>),
      RoleIds(<< [role_id |-> "r1", amount |-> IntAmount(0)] >>),
      RoleIds(<< [role_id |-> "r1", amount |-> SciAmount(1, 2)],
                 [role_id |-> "r2", amount |-> IntAmount(50)] >>) }

RoleNames == <<"vip", "mod", "helper">>

\* The roles sections: up to MaxRoles role names, each with its value.
RoleTables ==
    UNION { { [i \in 1..n |-> [name |-> RoleNames[i], data |-> d[i]]] :
                d \in [1..n -> RoleData] } : n \in 1..MaxRoles }

RolesInit ==
    /\ roleRun \in { [roles |-> t, pc |-> "idle", pos |-> 0, results |-> <<>>,
                      attempts |-> <<>>] : t \in RoleTables }
    /\ calls = <<>>
    /\ loop = NoLoop
    /\ OthersIdle

InitRoles == HttpInit /\ SchedInit /\ LimitIdle /\ CashInit /\ RolesInit

\* results[role_name] = success
SetResult(results, name, success) ==
    IF \E i \in 1..Len(results) : results[i].name = name
    THEN [i \in 1..Len(results) |->
            IF results[i].name = name THEN [name |-> name, success |-> success]
            ELSE results[i]]
    ELSE Append(results, [name |-> name, success |-> success])

RolesFrame ==
    UNCHANGED <<httpVars, schedVars, limitVars, cashVars>> /\ UNCHANGED <<calls, loop, admin, timeParse, lb, fetch>>

\* add_cash_to_all_roles up to its loop, the feature being enabled and the
\* channel configured.
StartDistribution ==
    /\ roleRun.pc = "idle"
    /\ config.features["add_cash_to_roles"] = "on"
    /\ Len(roleRun.roles) > 0
    /\ roleRun' = [roleRun EXCEPT !.pc = "roles", !.pos = 1]
    /\ RolesFrame

\* One pass of `for role_name, role_data in roles.items()', with
\* add_cash_to_single_role for the first role-id and the `break' after it.
ProcessRole ==
    /\ roleRun.pc = "roles"
    /\ roleRun.pos \in 1..Len(roleRun.roles)
    /\ LET role == roleRun.roles[roleRun.pos]
           next == IF roleRun.pos = Len(roleRun.roles) THEN "return" ELSE "roles"
       IN  IF role.data.kind # "dict"
           THEN roleRun' = [roleRun EXCEPT
                              !.results = SetResult(@, role.name, FALSE),
                              !.pos = @ + 1, !.pc = next]
           ELSE IF Len(role.data.ids) = 0
           THEN roleRun' = [roleRun EXCEPT !.pos = @ + 1, !.pc = next]
           ELSE LET first == role.data.ids[1]
                IN  IF ParseAmount(first.amount) <= 0
                    THEN roleRun' = [roleRun EXCEPT
                                       !.results = SetResult(@, role.name, FALSE),
                                       !.pos = @ + 1, !.pc = next]
                    ELSE \E result \in TypeAndSendOutcomes :
                           roleRun' = [roleRun EXCEPT
                              !.attempts = Append(@, [name |-> role.name,
                                                      role_id |-> first.role_id,
                                                      amount |-> ParseAmount(first.amount)]),
                              !.results = SetResult(@, role.name, result),
                              !.pos = @ + 1, !.pc = next]
    /\ RolesFrame

\* return results
ReturnResults ==
    /\ roleRun.pc = "return"
    /\ roleRun' = [roleRun EXCEPT !.pc = "done"]
    /\ RolesFrame

NextRoles == StartDistribution \/ ProcessRole \/ ReturnResults

SpecRoles == InitRoles /\ [][NextRoles]_vars

(* ---------------------------- feature toggles -------------------------- *)
\* Variant: a feature whose section is absent reads as enabled.
GetFeatureStates_DefaultTrue(features) ==
    [f \in Features |-> features[f] # "off"]

\* _get_feature_states: self.config.get(feature, {}).get('enabled', False)
GetFeatureStates(features) ==
    [f \in Features |-> features[f] = "on"]

FeaturesInit ==
    /\ minute = 0
    /\ config \in { [Document({}) EXCEPT !.features = fs] :
                      fs \in [Features -> {"absent", "on", "off"}] }
    /\ file = config
    /\ last_execution = {}
    /\ sweepPos = 0
    /\ runs = <<>>
    /\ fired = [k \in Keys |-> 0]
    /\ custom = NoCustom
    /\ known_tasks = TaskNames(config)
    /\ known_roles = config.roles

InitFeatures == HttpInit /\ FeaturesInit /\ LimitIdle /\ CashInit /\ AuxIdle

\* The newest MaxCalls calls, newest first.
Remember(call, log) == SubSeq(<<call>> \o log, 1, IF Len(log) + 1 > MaxCalls THEN MaxCalls ELSE Len(log) + 1)

FeaturesFrame ==
    /\ UNCHANGED <<httpVars, limitVars, cashVars>>
    /\ UNCHANGED <<minute, last_execution, sweepPos, runs, fired, custom, known_tasks, known_roles>>
    /\ UNCHANGED <<roleRun, loop, admin, timeParse, lb, fetch>>

\* enable_all_features(save) for enabled = TRUE, disable_all_features(save)
\* for FALSE: _set_feature_states, then save_config when save is requested;
\* the result is save_config's, or True without save.
CallSetFeatureStates(enabled, save) ==
    /\ config' = [config EXCEPT !.features = SetFeatureStates(@, enabled)]
    /\ \E save_result \in BOOLEAN :
         /\ file' = IF save /\ save_result THEN config' ELSE file
         /\ calls' = Remember([enabled |-> enabled, save |-> save,
                               before |-> config.features, after |-> config'.features,
                               states |-> GetFeatureStates(config'.features),
                               persisted |-> save /\ save_result,
                               result |-> IF save THEN save_result ELSE TRUE],
                              calls)
    /\ FeaturesFrame

NextFeatures == \E enabled, save \in BOOLEAN : CallSetFeatureStates(enabled, save)

SpecFeatures == InitFeatures /\ [][NextFeatures]_vars

(* --------------------------- the scheduling loop ----------------------- *)
\* What check_all_tasks evaluates, in its order: the tasks of the document,
\* then the three periodic jobs.
SweepItems ==
    [i \in 1..Len(TaskTable) |-> TaskTable[i].name]
        \o <<"check_auto_cash", "check_cash_checks_schedule", "check_role_cash_schedule">>

\* current_time.strftime('%Y-%m-%d_%H:%M') of a time in seconds.
MinuteOf(t) == t \div 60

LoopStart ==
    [pc |-> "poll", now |-> 0, wake |-> 0, last_check_minute |-> -1, current_minute |-> -1,
     item |-> 0, evaluated |-> <<>>, raised |-> 0, complete |-> FALSE,
     swept |-> [m \in 0..MinuteOf(MaxLoopTime) |-> 0], interrupted |-> FALSE]

LoopInit == roleRun = NoRoleRun /\ calls = <<>> /\ loop = LoopStart /\ OthersIdle

InitLoop == HttpInit /\ SchedInit /\ LimitIdle /\ CashInit /\ LoopInit

LoopFrame ==
    UNCHANGED <<httpVars, schedVars, limitVars, cashVars>> /\ UNCHANGED <<roleRun, calls, admin, timeParse, lb, fetch>>

\* Time passes, PollSeconds at a time: during a sweep, whose sends, waits
\* and retries take as long as they take, and during a sleep until its end.
\* The head of the loop and schedule.run_pending() take no time.
LoopTick ==
    /\ \/ loop.pc = "sweep"
       \/ loop.pc \in {"sleep", "backoff"} /\ loop.now < loop.wake
    /\ loop.now + PollSeconds <= MaxLoopTime
    /\ loop' = [loop EXCEPT !.now = @ + PollSeconds]
    /\ LoopFrame

\* The head of the loop: the minute is read and compared with the minute of
\* the latest sweep.
Poll ==
    /\ loop.pc = "poll"
    /\ LET current_minute == MinuteOf(loop.now)
       IN  IF current_minute # loop.last_check_minute
           THEN loop' = [loop EXCEPT !.pc = "sweep", !.current_minute = current_minute,
                                     !.item = 1, !.evaluated = <<>>, !.raised = 0,
                                     !.complete = FALSE,
                                     !.swept[current_minute] = @ + 1]
           ELSE loop' = [loop EXCEPT !.pc = "pending", !.current_minute = current_minute]
    /\ LoopFrame

\* Variant: an exception in a task or job ends check_all_tasks.
SweepItem_StopOnRaise ==
    /\ loop.pc = "sweep"
    /\ loop.item \in 1..Len(SweepItems)
    /\ \E raises \in BOOLEAN :
         loop' = [loop EXCEPT
                    !.evaluated = Append(@, SweepItems[loop.item]),
                    !.raised = IF raises /\ @ = 0 THEN loop.item ELSE @,
                    !.item = IF raises THEN Len(SweepItems) + 1 ELSE @ + 1]
    /\ LoopFrame

\* check_all_tasks evaluates its next task or job inside try/except Exception;
\* however long that takes, an exception is logged and the sweep goes on.
SweepItem ==
    /\ loop.pc = "sweep"
    /\ loop.item \in 1..Len(SweepItems)
    /\ \E raises \in BOOLEAN :
         loop' = [loop EXCEPT
                    !.evaluated = Append(@, SweepItems[loop.item]),
                    !.raised = IF raises /\ @ = 0 THEN loop.item ELSE @,
                    !.item = @ + 1]
    /\ LoopFrame

\* check_all_tasks returns: last_check_minute = current_minute.
SweepReturn ==
    /\ loop.pc = "sweep"
    /\ loop.item = Len(SweepItems) + 1
    /\ loop' = [loop EXCEPT !.pc = "pending", !.complete = TRUE,
                            !.last_check_minute = loop.current_minute]
    /\ LoopFrame

\* schedule.run_pending(), then time.sleep(5).
RunPending ==
    /\ loop.pc = "pending"
    /\ loop' = [loop EXCEPT !.pc = "sleep", !.wake = loop.now + PollSeconds]
    /\ LoopFrame

\* The sleep of the loop or of the back-off ends.
WakeUp ==
    /\ loop.pc \in {"sleep", "backoff"}
    /\ loop.now >= loop.wake
    /\ loop' = [loop EXCEPT !.pc = "poll"]
    /\ LoopFrame

\* Variant: the handler of an unexpected exception leaves the loop.
LoopRaise_Exit ==
    /\ loop.pc \in {"sweep", "pending"}
    /\ loop.pc = "sweep" => loop.item = 1
    /\ loop' = [loop EXCEPT !.pc = "stopped"]
    /\ LoopFrame

\* An exception reaches `except Exception' of the loop, from check_all_tasks
\* outside its own handlers or from schedule.run_pending(): it is logged and
\* time.sleep(60) begins.
LoopRaise ==
    /\ loop.pc \in {"sweep", "pending"}
    /\ loop.pc = "sweep" => loop.item = 1
    /\ loop' = [loop EXCEPT !.pc = "backoff", !.wake = loop.now + BackoffSeconds]
    /\ LoopFrame

\* KeyboardInterrupt: the loop ends.
Interrupt ==
    /\ loop.pc # "stopped"
    /\ loop' = [loop EXCEPT !.pc = "stopped", !.interrupted = TRUE]
    /\ LoopFrame

NextLoop ==
    \/ LoopTick
    \/ Poll
    \/ SweepItem
    \/ SweepReturn
    \/ RunPending
    \/ WakeUp
    \/ LoopRaise
    \/ Interrupt

SpecLoop == InitLoop /\ [][NextLoop]_vars

\* The main thread alone uses the client.
NextHttp ==
    \/ \E kind \in Kinds : StartCall("main", kind)
    \/ Request("main")
    \/ Tick

SpecHttp == Init /\ [][NextHttp]_vars

\* The client methods each thread calls: the sweep (custom tasks, the cash
\* jobs) and a lock/unlock sequence.  Both send messages to the channel.
KindsOf(th) ==
    IF th = "main" THEN {"send_message", "update_channel_permissions"}
                   ELSE {"send_message", "lock_channel", "unlock_channel"}

\* The main thread and a background sequence thread use the client.
NextHttp2 ==
    \/ \E th \in Threads : \E kind \in KindsOf(th) : StartCall(th, kind)
    \/ \E th \in Threads : Request(th)
    \/ (now < MaxTime2 /\ Tick)

SpecHttp2 == Init /\ [][NextHttp2]_vars

(* ------------- properties of the sweep and of the sequences ------------ *)
\* C1: however often check_all_tasks runs within one minute, a task whose
\* time-spec matches that minute produces one action and never a second one
\* (one sequence dispatched, or one custom permission update applied).
C1_NeverTwoActions ==
    \A k \in Keys : fired[k] <= 1

\* C2: a lock sequence whose lock_channel failed is Aborted, has not called
\* disable_all_features and has sent neither the leaderboard query nor the
\* closing message; the failing step leaves the configuration, in memory
\* and persisted, as it was.
C2_LockAbort ==
    [][\A i \in DOMAIN runs' :
         runs'[i].kind = "lock" /\ runs'[i].perm = "fail" =>
             /\ runs'[i].pc = "Aborted"
             /\ runs'[i].toggles = 0
             /\ runs'[i].sent = <<>>
             /\ (i \in DOMAIN runs /\ runs[i].perm = "pending"
                    => config' = config /\ file' = file)]_vars

C2_Witness ==
    \E i \in DOMAIN runs :
        runs[i].kind = "lock" /\ runs[i].perm = "fail" /\ runs[i].pc = "Aborted"

\* C3: an unlock sequence whose unlock_channel failed is Aborted, has not
\* called enable_all_features and has not sent the opening message; the reset
\* and confirmation commands were sent before the permission update.
C3_UnlockAbort ==
    [][\A i \in DOMAIN runs' :
         runs'[i].kind = "unlock" /\ runs'[i].perm = "fail" =>
             /\ runs'[i].pc = "Aborted"
             /\ runs'[i].toggles = 0
             /\ runs'[i].sent = <<"$reset-economy", "yes">>
             /\ (i \in DOMAIN runs /\ runs[i].perm = "pending"
                    => config' = config /\ file' = file)]_vars

C3_Witness ==
    \E i \in DOMAIN runs :
        /\ runs[i].kind = "unlock" /\ runs[i].perm = "fail" /\ runs[i].pc = "Aborted"
        /\ Len(runs[i].sent) = 2

(* ------------------- properties of the HTTP client --------------------- *)
\* Every response of the thread's current call was a 429.
Only429(th) == nreq[th] >= 1 /\ prior429[th] /\ lastResp[th] = "ratelimited"

\* Every response of the current call was a retryable error status or a timeout.
AllTransient(th) ==
    nreq[th] >= 1 /\ priorTransient[th] /\ lastResp[th] \in {"transient", "timeout"}

\* C4: a call answered by 429 responses only is never reported as failed
\* (rate limiting is waited out and does not use up the retry attempts).
C4_RateLimitNeverFails ==
    \A th \in Threads : Only429(th) => callResult[th] # "fail"

\* C5: a 401, 403 or 404 response ends the call as failed on whichever
\* attempt it arrives, and the call issues no further request.
C5_PermanentFailsAtOnce ==
    [][\A th \in Threads :
         lastResp[th] = "permanent" =>
             /\ callPc[th] = "done"
             /\ callResult[th] = "fail"
             /\ nreq'[th] <= nreq[th]]_vars

C5_Witness ==
    nreq["main"] = max_retries /\ lastResp["main"] = "permanent" /\ callPc["main"] = "done"

\* C6: a call whose attempts all end in a retryable error status or a timeout
\* goes on until 3 requests were made and then fails; no call makes a 4th
\* request; a success status on any attempt returns success.
C6_ThreeAttempts ==
    \A th \in Threads :
        /\ nreq[th] <= 3
        /\ AllTransient(th) /\ nreq[th] < 3 => callPc[th] = "loop"
        /\ AllTransient(th) /\ nreq[th] = 3 => callPc[th] = "done" /\ callResult[th] = "fail"
        /\ lastResp[th] = "success" => callPc[th] = "done" /\ callResult[th] = "ok"

C6_Witness ==
    /\ nreq["main"] = 3 /\ priorTransient["main"] /\ lastResp["main"] = "success"
    /\ callResult["main"] = "ok"

\* C7: after a 429 carrying a wait directive of d seconds the call's next
\* request goes out no earlier than d seconds after the 429 was received.
C7_WaitsRetryAfter ==
    \A th \in Threads : ~earlyRetry[th]

C7_Witness ==
    nreq["main"] = 3 /\ prior429["main"] /\ now >= 2 * MaxRetryAfter

\* C8: no request reaches an endpoint whose last known rate-limit state shows
\* zero remaining calls before that state's reset time.
C8_BlocksUntilReset ==
    \A th \in Threads : ~earlySend[th]

(* ------------------ properties of the cumulative limit ----------------- *)
\* What each weekday's configured amount stands for.
AmountOf(day) ==
    CASE day = "Monday" -> 10
      [] day = "Tuesday" -> 20
      [] day = "Wednesday" -> 30
      [] OTHER -> 5

\* The sum of the amounts at the first n places of the table.
RECURSIVE PrefixSum(_, _)
PrefixSum(tbl, n) == IF n <= 0 THEN 0 ELSE PrefixSum(tbl, n - 1) + AmountOf(tbl[n].day)

\* The table of the interface description's example.
ExampleTable ==
    << [day |-> "Monday", amount |-> DayAmount["Monday"]],
       [day |-> "Tuesday", amount |-> DayAmount["Tuesday"]],
       [day |-> "Wednesday", amount |-> DayAmount["Wednesday"]] >>

\* C9: with pos the place of today's weekday in the table's own order, the
\* limit is the sum of the amounts up to and including pos when the auto-cash
\* time has passed and a run is recorded for today, and the sum of the amounts
\* before pos otherwise (0 at the first place), for every time-spec that
\* names a time of day; the example table gives 30 before and 60 after the
\* grant on a Wednesday.
C9_LimitIsReference ==
    limOut.done /\ limIn.auto_cash.time.fmt # "bad" =>
        LET tbl == limIn.auto_cash.amounts
            today == WeekdayName(limIn.date)
            timePassed == limIn.hour * 60 + limIn.min >= limIn.at
            executedToday == limIn.last = limIn.date
            included == timePassed /\ executedToday
        IN  /\ \A pos \in 1..Len(tbl) :
                  tbl[pos].day = today =>
                      limOut.limit = IF included THEN PrefixSum(tbl, pos)
                                                ELSE PrefixSum(tbl, pos - 1)
            /\ tbl = ExampleTable /\ today = "Wednesday" =>
                  limOut.limit = IF included THEN 60 ELSE 30

C9_Witness ==
    /\ limOut.done
    /\ limIn.auto_cash.amounts = ExampleTable
    /\ WeekdayName(limIn.date) = "Wednesday"
    /\ limOut.limit = 60

\* The sum of the amounts of the weekdays of a set of dates.
RECURSIVE SumGranted(_)
SumGranted(dates) ==
    IF dates = {} THEN 0
    ELSE LET d == CHOOSE x \in dates : TRUE
         IN  AmountOf(WeekdayName(d)) + SumGranted(dates \ {d})

\* The dates of the week cycle a date lies in.
WeekOf(date) == {d \in 1..(MaxCashDate + 1) : (d - 1) \div 7 = (date - 1) \div 7}

\* C10 as stated: at every cash check the limit is at most the sum of the
\* amounts auto-cash has delivered so far in the current week cycle.
C10_LimitWithinGranted ==
    lastCheck.done =>
        lastCheck.limit <= SumGranted(lastCheck.granted \cap WeekOf(lastCheck.date))

\* C10 amended: at every cash check the limit is at most the sum of the table
\* amounts before today's place plus today's amount if auto-cash has
\* delivered today's grant (0 when today is not in the table), and once
\* today's grant is recorded the limit includes today's amount.
C10_TodayOnlyWhenGranted ==
    lastCheck.done =>
        LET tbl == auto_cash.amounts
            today == WeekdayName(lastCheck.date)
        IN  /\ (\A pos \in 1..Len(tbl) : tbl[pos].day # today) => lastCheck.limit = 0
            /\ \A pos \in 1..Len(tbl) :
                 tbl[pos].day = today =>
                    /\ lastCheck.limit <= PrefixSum(tbl, pos - 1)
                          + (IF lastCheck.date \in lastCheck.granted
                             THEN AmountOf(today) ELSE 0)
                    /\ lastCheck.last = lastCheck.date =>
                          lastCheck.limit = PrefixSum(tbl, pos)

\* A check on Tuesday after Tuesday's grant, Monday's never delivered.
C10_Witness ==
    /\ lastCheck.done
    /\ lastCheck.date = 2
    /\ lastCheck.granted = {2}
    /\ lastCheck.last = 2
    /\ lastCheck.limit = 30

\* C11: in a cash-check cycle whose leaderboard amount was parsed, one top-up
\* command for exactly limit - current is issued when current < limit, and
\* none when current >= limit.
C11_TopUpIsDifference ==
    cycle.outcome = "checked" =>
        /\ cycle.current < cycle.limit =>
              /\ Len(cycle.topups) = 1
              /\ cycle.topups[1].amount = cycle.limit - cycle.current
              /\ cycle.current + cycle.topups[1].amount = cycle.limit
        /\ cycle.current >= cycle.limit => cycle.topups = <<>>

C11_Witness ==
    /\ cycle.outcome = "checked"
    /\ cycle.current = 25 /\ cycle.limit = 30
    /\ Len(cycle.topups) = 1

AbortedOutcomes == {"lb_failed", "no_message", "unparsed"}

\* C12: a cash-check cycle in which the leaderboard query could not be sent,
\* no message of the bot was fetched or the reply could not be parsed issues
\* no top-up and leaves the loop at its idle point with nothing but the time
\* of the check recorded; the cycle after it starts at least one interval
\* later.
C12_AbortedCycle ==
    /\ cycle.outcome \in AbortedOutcomes =>
          /\ cycle.topups = <<>>
          /\ cashPc # "limit"
          /\ last_cash_check_time = cycle.start
    /\ cycle.prevOutcome \in AbortedOutcomes => ~cycle.early

C12_Witness ==
    /\ cycle.prevOutcome = "unparsed"
    /\ cycle.outcome = "checked"
    /\ Len(cycle.topups) = 1

\* C13: when a role distribution has returned, every configured role name
\* has at most one attempted command, built from its first role-id, and an
\* entry in the result map.
C13_OneAttemptAndEntryPerRole ==
    roleRun.pc = "done" =>
        \A i \in 1..Len(roleRun.roles) :
            LET role == roleRun.roles[i]
                mine == {k \in 1..Len(roleRun.attempts) : roleRun.attempts[k].name = role.name}
            IN  /\ Cardinality(mine) <= 1
                /\ \A k \in mine : roleRun.attempts[k].role_id = role.data.ids[1].role_id
                /\ \E j \in 1..Len(roleRun.results) : roleRun.results[j].name = role.name

\* Two calls in a row of the same operation, the second one persisted.
SameTwice ==
    /\ Len(calls) >= 2
    /\ calls[1].enabled = calls[2].enabled
    /\ calls[1].persisted /\ calls[1].result

\* C14: when enable_all_features (or disable_all_features) is called twice in
\* a row, the configuration after the second call equals the configuration
\* after the first, and the second call reports success when persisting
\* succeeds.
C14_Idempotent ==
    Len(calls) >= 2 /\ calls[1].enabled = calls[2].enabled =>
        /\ calls[1].after = calls[2].after
        /\ calls[1].before = calls[2].after
        /\ calls[1].persisted => calls[1].result

C14_Witness ==
    /\ SameTwice
    /\ calls[2].before # calls[2].after

\* C15 as stated: after enable_all_features every feature of the fixed set
\* reads as enabled, after disable_all_features as disabled, whatever the
\* document held before, absent sections included.
C15_AllFeaturesSet ==
    Len(calls) >= 1 =>
        \A f \in Features : calls[1].states[f] = calls[1].enabled

\* C15 amended: after enable_all_features every feature whose section is
\* present in the document reads as enabled and a feature whose section is
\* absent stays absent and reads as disabled; after disable_all_features
\* every feature reads as disabled.
C15_PresentFeaturesSet ==
    Len(calls) >= 1 =>
        \A f \in Features :
            /\ calls[1].before[f] # "absent" => calls[1].states[f] = calls[1].enabled
            /\ calls[1].before[f] = "absent" =>
                  calls[1].after[f] = "absent" /\ calls[1].states[f] = FALSE

C15_Witness ==
    /\ Len(calls) >= 1
    /\ calls[1].enabled
    /\ calls[1].before["auto_cash"] = "absent"
    /\ calls[1].before["cash_checks"] = "off"
    /\ calls[1].states["cash_checks"]

\* C16: when persisting fails in a call with save requested, the call
\* reports failure and the in-memory feature flags are what they were before
\* the call.
C16_FailedSaveLeavesFlags ==
    Len(calls) >= 1 /\ calls[1].save /\ ~calls[1].persisted =>
        /\ calls[1].result = FALSE
        /\ calls[1].after = calls[1].before

\* C17: while the loop runs, every minute that has gone by got exactly one
\* sweep, and no minute ever gets two.
C17_OneSweepPerMinute ==
    /\ \A m \in DOMAIN loop.swept : loop.swept[m] <= 1
    /\ loop.pc \notin {"off", "stopped"} =>
          \A m \in DOMAIN loop.swept : m < MinuteOf(loop.now) => loop.swept[m] = 1

\* C18: a sweep that has returned has evaluated every task and then every
\* periodic job, in order, whichever of them raised an exception.
C18_SweepGoesOn ==
    loop.pc # "off" /\ loop.complete => loop.evaluated = SweepItems

C18_Witness ==
    /\ loop.pc # "off"
    /\ loop.complete
    /\ loop.raised = 1
    /\ loop.evaluated = SweepItems

\* C19: the loop ends only by a user interrupt; an exception at its top level
\* puts it to sleep, and polling resumes no sooner than BackoffSeconds later.
C19_BackoffNeverExit ==
    [][/\ loop'.pc = "stopped" => loop'.interrupted
       /\ loop.pc = "backoff" /\ loop'.pc # "backoff" =>
             \/ loop'.pc = "stopped"
             \/ loop'.pc = "poll" /\ loop'.now >= loop.wake
       /\ loop.pc # "backoff" /\ loop'.pc = "backoff" =>
             loop'.wake = loop.now + 60]_vars

C19_Witness ==
    /\ loop.pc = "poll"
    /\ loop.swept[0] = 1 /\ loop.last_check_minute = -1
    /\ loop.now >= 60

\* C20: a lock or unlock dispatch returns with the sequence started and none
\* of its steps done, and the sweep moves on to its next task.
C20_DispatchReturnsAtOnce ==
    [][\A i \in DOMAIN runs' :
          i \notin DOMAIN runs =>
             /\ runs'[i].pc \in {"lock_channel", "send_reset"}
             /\ runs'[i].perm = "pending"
             /\ runs'[i].sent = <<>>
             /\ runs'[i].toggles = 0
             /\ sweepPos' = IF sweepPos = Len(config.tasks) THEN 0 ELSE sweepPos + 1]_vars

\* The unlock sequence waits for the confirmation prompt while the sweep that
\* started it has gone on and fired the task after it.
C20_Witness ==
    /\ Len(runs) >= 1
    /\ runs[1].kind = "unlock"
    /\ runs[1].pc = "wait_prompt"
    /\ runs[1].minute = minute
    /\ fired[<<"perms", minute>>] = 1

(* ------------------ order of the lock and unlock sequences -------------- *)
IsPrefix(a, b) == Len(a) <= Len(b) /\ \A k \in 1..Len(a) : a[k] = b[k]

LockOrder == <<"lock_channel", "disable", "$lb", "sleep", "closing">>

UnlockOrder ==
    <<"$reset-economy", "sleep", "yes", "sleep", "unlock_channel", "enable", "opening">>

\* C21: the steps a lock sequence has gone through are an initial part of
\* permission update, disable features, leaderboard query, settle wait,
\* closing message; features are disabled only after the channel was locked
\* and the closing message is sent only after the leaderboard query.
C21_LockOrder ==
    \A i \in DOMAIN runs :
        runs[i].kind = "lock" =>
            /\ IsPrefix(runs[i].steps, LockOrder)
            /\ runs[i].toggles >= 1 => runs[i].perm = "ok"
            /\ (\E k \in 1..Len(runs[i].sent) : runs[i].sent[k] = "closing") =>
                  runs[i].sent = <<"$lb", "closing">>

C21_Witness ==
    \E i \in DOMAIN runs :
        runs[i].kind = "lock" /\ runs[i].pc = "Done" /\ runs[i].steps = LockOrder

\* C22: the steps an unlock sequence has gone through are an initial part of
\* reset command, wait, confirmation, wait, permission update, enable
\* features, opening message; only a failed permission update ends it early,
\* and features are enabled only after the permission update succeeded.
C22_UnlockOrder ==
    \A i \in DOMAIN runs :
        runs[i].kind = "unlock" =>
            /\ IsPrefix(runs[i].steps, UnlockOrder)
            /\ runs[i].pc = "Aborted" =>
                  /\ runs[i].perm = "fail"
                  /\ Len(runs[i].steps) = 5
            /\ runs[i].toggles >= 1 => runs[i].perm = "ok"

\* Neither command could be sent (nor the document saved, nor the opening
\* message sent), and the sequence still ran to its end.
C22_Witness ==
    \E i \in DOMAIN runs :
        /\ runs[i].kind = "unlock" /\ runs[i].pc = "Done"
        /\ runs[i].perm = "ok" /\ runs[i].fails = 4

\* C23: a lock sequence whose permission update succeeded is never Aborted,
\* and when it is Done it has gone through every step, whatever the outcome
\* of the save, of the leaderboard query and of the closing message.
C23_LockedThenDone ==
    \A i \in DOMAIN runs :
        runs[i].kind = "lock" /\ runs[i].perm = "ok" =>
            /\ runs[i].pc # "Aborted"
            /\ runs[i].pc = "Done" => runs[i].steps = LockOrder

C23_Witness ==
    \E i \in DOMAIN runs :
        /\ runs[i].kind = "lock" /\ runs[i].pc = "Done"
        /\ runs[i].fails = 3

\* C24: every dispatched lock or unlock sequence eventually reaches Done or
\* Aborted.
C24_SequencesEnd ==
    \A i \in 1..MaxRuns :
        (i \in DOMAIN runs) ~> (i \in DOMAIN runs /\ runs[i].pc \in {"Done", "Aborted"})

\* One sequence has ended Done and another one Aborted.
C24_Witness ==
    \E i, j \in DOMAIN runs : runs[i].pc = "Done" /\ runs[j].pc = "Aborted"

(* ------------------------------ custom action -------------------------- *)
TaskNamed(n) == CHOOSE t \in {TaskTable[k] : k \in 1..Len(TaskTable)} : t.name = n

\* C25: a custom action makes one permission update, with the overwrites of
\* its task, sends the task's message exactly when the task has one and the
\* update succeeded, and leaves the feature flags in memory and in the file
\* as they were.
C25_CustomAction ==
    [][custom' # custom =>
         LET t == TaskNamed(custom'.task)
         IN  /\ t.action = "custom"
             /\ custom'.updates = <<t.permissions>>
             /\ custom'.sent = (IF t.message /\ custom'.success THEN <<"message">> ELSE <<>>)
             /\ config'.features = config.features
             /\ file'.features = file.features
             /\ runs' = runs]_vars

\* The update of the task with a message failed and nothing was sent.
C25_Witness ==
    /\ custom.task = "perms" /\ ~custom.success
    /\ custom.updates = <<"perms_overwrites">> /\ custom.sent = <<>>

(* ------------------------- administrative writes ----------------------- *)
\* C26: once the scheduler has reloaded the file after the administrative
\* process wrote the new task into it, the task is in the scheduler's
\* in-memory configuration.
C26_AdminChangeLoaded ==
    admin.pc = "reloaded" => HasTask(config, AdminTask.name)

(* ------------------------------ time specs ------------------------------ *)
\* What a text of the form [weekday word] hour [:minute] meridiem denotes
\* when the hour is one of 1..12.
Clock12(h, mer) == (h % 12) + (IF mer = "pm" THEN 12 ELSE 0)

MeridiemText(mer) == <<IF mer = "am" THEN "a" ELSE "p", "m">>

Returned(text) == timeParse.pc = "returned" /\ timeParse.text = text

Parsed(h, m, day) == [ok |-> TRUE, hour |-> h, minute |-> m, weekday |-> day]

\* C27: parse_time_format converts 12-hour specs to 24-hour time and reads
\* an optional weekday word: 'Monday 10:30pm' is hour 22, minute 30, weekday
\* 0; '14:30' is hour 14, minute 30, no weekday; 12am is hour 0 and 12pm is
\* hour 12; a text matching no pattern ('garbage') fails.
C27_ParseExamples ==
    /\ Returned(<<"M", "o", "n", "d", "a", "y", " ", "1", "0", ":", "3", "0", "p", "m">>) => timeParse.result = Parsed(22, 30, 0)
    /\ Returned(<<"1", "4", ":", "3", "0">>) => timeParse.result = Parsed(14, 30, NoWeekday)
    /\ Returned(<<"1", "2", "a", "m">>) => timeParse.result = Parsed(0, 0, NoWeekday)
    /\ Returned(<<"1", "2", "p", "m">>) => timeParse.result = Parsed(12, 0, NoWeekday)
    /\ Returned(<<"1", "2", ":", "3", "0", "a", "m">>) => timeParse.result = Parsed(0, 30, NoWeekday)
    /\ Returned(<<"g", "a", "r", "b", "a", "g", "e">>) => ~timeParse.result.ok
    /\ \A h \in 1..12, mer \in {"am", "pm"} :
          /\ Returned(Decimal(h) \o MeridiemText(mer)) =>
                timeParse.result = Parsed(Clock12(h, mer), 0, NoWeekday)
          /\ Returned(<<"s", "u", "n", "d", "a", "y", " ">> \o Decimal(h) \o <<":", "5", "9">> \o MeridiemText(mer)) =>
                timeParse.result = Parsed(Clock12(h, mer), 59, 6)

C27_Witness ==
    Returned(<<"M", "o", "n", "d", "a", "y", " ", "1", "0", ":", "3", "0", "p", "m">>) /\ timeParse.result.hour = 22

\* C28: a successful parse has its hour in 0..23, its minute in 0..59 and
\* its weekday absent or in 0..6.
C28_ParsedInRange ==
    timeParse.pc = "returned" /\ timeParse.result.ok =>
        /\ timeParse.result.hour \in 0..23
        /\ timeParse.result.minute \in 0..59
        /\ timeParse.result.weekday \in {NoWeekday} \cup 0..6

(* --------------------------- leaderboard amounts ------------------------ *)
LbReturned(message) == lb.pc = "returned" /\ lb.message = message

\* The largest of the amounts a and b when it has at least 4 digits.
Top(a, b) == IF a.value >= b.value THEN a.value ELSE b.value

\* C29: for a leaderboard whose first rank-1 line carries amounts written
\* with thousands separators, the result is the largest number of at least
\* 4 digits on that line, whatever the other lines hold; the body with rank
\* 1 at 1,234,567 and rank 2 at 500 gives 1234567.
C29_SeparatedTopAmount ==
    /\ LbReturned([embeds |-> TRUE, lines |-> << <<"*", "*", "1", ".", "*", "*", " ", "P", "l", "a", "y", "e", "r", "X", " ", "-", " ", "1", ",", "2", "3", "4", ",", "5", "6", "7", " ", "c", "a", "s", "h">>, <<"*", "*", "2", ".", "*", "*", " ", "P", "l", "a", "y", "e", "r", "Y", " ", "-", " ", "5", "0", "0", " ", "c", "a", "s", "h">> >>]) =>
          lb.result = [found |-> TRUE, amount |-> 1234567]
    /\ \A h \in Headers, m \in RankOneMarkers, a \in AmountTexts, b \in SecondAmounts,
          o \in OtherLines :
          (/\ LbReturned(Leaderboard(h, m, a, b, o))
           /\ a.separated /\ b.separated
           /\ Top(a, b) >= 1000)
             => lb.result = [found |-> TRUE, amount |-> Top(a, b)]

\* A larger amount stands in the header line, above the line of rank 1.
C29_Witness ==
    \E m \in RankOneMarkers, a, b \in AmountTexts, o \in OtherLines :
        /\ a.value = 12345 /\ a.separated /\ b.value = 1000
        /\ LbReturned(Leaderboard(<< <<"C", "a", "s", "h", " ", "8", ",", "8", "8", "8", ",", "8", "8", "8">> >>, m, a, b, o))
        /\ lb.result.amount = 12345

\* C30: on the first rank-1 line every number of at least 4 digits counts,
\* with or without thousands separators, and the largest is the result.
C30_EveryTokenCounts ==
    \A h \in Headers, m \in RankOneMarkers, a \in AmountTexts, b \in SecondAmounts,
       o \in OtherLines :
        (LbReturned(Leaderboard(h, m, a, b, o)) /\ Top(a, b) >= 1000)
            => lb.result = [found |-> TRUE, amount |-> Top(a, b)]

\* C31: when no line denotes rank 1, the result is the largest of the
\* numbers of the body that have at least 4 digits or are written with
\* separators, and there is no result only when the body has no such number.
C31_FallbackMaximum ==
    \A a \in AmountTexts, b \in AmountTexts :
        LbReturned(Unranked(a, b)) =>
            LET eligible == {x.value : x \in {y \in {a, b} : y.value >= 1000}}
            IN  lb.result = IF eligible = {} THEN NoAmount
                            ELSE [found |-> TRUE, amount |-> SetMax(eligible)]

\* C31 as the code has it: the numbers that count are those written with
\* separators and those of at least 6 digits.
C31_FallbackSeparatedOrSixDigits ==
    \A a \in AmountTexts, b \in AmountTexts :
        LbReturned(Unranked(a, b)) =>
            LET eligible == {x.value : x \in {y \in {a, b} : Len(Clean(y.text)) < Len(y.text) \/ y.value >= 100000}}
            IN  lb.result = IF eligible = {} THEN NoAmount
                            ELSE [found |-> TRUE, amount |-> SetMax(eligible)]

\* The larger number, 12345 without separators, is passed over for 1,000.
C31_Witness ==
    \E a \in AmountTexts, b \in AmountTexts :
        /\ a.value = 12345 /\ ~a.separated /\ b.value = 1000
        /\ LbReturned(Unranked(a, b))
        /\ lb.result = [found |-> TRUE, amount |-> 1000]

\* C32: whenever recording an execution takes the record set over its
\* ceiling, the entry evicted has the oldest minute of all entries, the new
\* one included, whatever the task names are; so the new entry is not the
\* one evicted while an older entry remains.
C32_EvictsOldest ==
    [][\A key \in Keys :
         fired'[key] = fired[key] + 1 =>
             LET added == last_execution \cup {key}
             IN  \A e \in added \ last_execution' :
                     \A j \in added : e[2] <= j[2]]_vars

\* No sequence is in flight.
Quiet == \A i \in DOMAIN runs : runs[i].pc \in {"Done", "Aborted"}

\* C33: when no sequence is in flight, the feature flags agree with the
\* last permission update that succeeded: all off after a lock, all on
\* after an unlock, also when a lock and an unlock sequence overlapped.
\* (Stated for sequences all of whose steps succeeded: every toggle was
\* saved, so a reload changes nothing.)
C33_FlagsFollowLastUpdate ==
    (Quiet /\ \A i \in DOMAIN runs : runs[i].fails = 0) =>
        \A i \in DOMAIN runs :
            (runs[i].applied > 0 /\ runs[i].applied = Updates(runs)) =>
                \A f \in Features :
                    config.features[f] = IF runs[i].kind = "lock" THEN "off" ELSE "on"

\* Every feature the document has is disabled, as disable_all_features
\* leaves them.
AllDisabled == \A f \in Features : config.features[f] # "on"

\* C34: while all features are disabled, no step sends an auto-cash grant
\* or a cash-check top-up, the step of a cash-check cycle that passed its
\* enabled check before the features were disabled included.
C34_NothingSentWhileDisabled ==
    [][AllDisabled =>
          /\ granted' = granted
          /\ (cashPc = "limit" /\ cashPc' # "limit" => cycle'.topups = <<>>)]_vars

Initiates(k) ==
    /\ sweepPos \in 1..Len(config.tasks)
    /\ sweepPos' # sweepPos
    /\ config.tasks[sweepPos].name = k[1] /\ minute = k[2]
    /\ ShouldExecute(config.tasks[sweepPos].lock_time, minute)
    /\ k \notin last_execution

\* C36: the record of (task, minute) is there after execute_task exactly
\* when the action was initiated successfully: for a lock or unlock task
\* from the dispatch on, whatever the sequence does later, and for a custom
\* task if and only if its permission update succeeded; a task that has its
\* record is not initiated again.
C36_RecordedWhenInitiated ==
    [][\A k \in Keys :
         /\ Initiates(k) =>
               IF config.tasks[sweepPos].action \in {"lock", "unlock"}
               THEN Len(runs') = Len(runs) + 1 /\ k \in last_execution'
               ELSE k \in last_execution' <=> custom'.success
         /\ (k \in last_execution /\ minute = k[2]) => fired'[k] = fired[k]]_vars

\* C37: whatever sweeps, reloads and feature toggles take place, the
\* auto-cash command is delivered at most once per date; the marker names a
\* date only if the command was delivered on that date; a step that
\* delivers nothing (a failed send included) leaves the marker as it was.
C37_OneGrantPerDate ==
    [][/\ \A d \in DOMAIN deliveries : deliveries'[d] <= 1
       /\ (last_auto_cash_execution' # None =>
              deliveries'[last_auto_cash_execution'] >= 1)
       /\ (deliveries' = deliveries =>
              last_auto_cash_execution' = last_auto_cash_execution)]_vars

\* The command was delivered on two dates, the second being today.
C37_Witness ==
    /\ deliveries[1] = 1 /\ deliveries[2] = 1
    /\ last_auto_cash_execution = 2 /\ clock.date = 2
    /\ \E f \in Features : config.features[f] = "off"

\* C38: consecutive cash-check cycles begin at least check_interval_minutes
\* apart and consecutive role distributions at least their interval apart;
\* the first sweep that finds the feature enabled and no run recorded
\* begins a cycle at once; every cycle, an aborted one included, is
\* recorded with the time it began.
C38_IntervalsKept ==
    [][/\ ~cycle'.early
       /\ (roleCycle'.prev # NoTime =>
              MinutesBetween(roleCycle'.prev, roleCycle'.start) >= role_interval_minutes)
       /\ (cashPc = "cash_checks" /\ cashPc' # cashPc =>
              /\ (config.features["cash_checks"] = "on" /\ last_cash_check_time = NoTime
                     => cycle'.start = clock)
              /\ (cycle' # cycle => last_cash_check_time' = cycle'.start))
       /\ (cashPc = "role_cash" /\ cashPc' # cashPc =>
              /\ (config.features["add_cash_to_roles"] = "on" /\ last_role_cash_time = NoTime
                     => roleCycle'.start = clock)
              /\ (roleCycle' # roleCycle => last_role_cash_time' = roleCycle'.start))]_vars

\* A cash check began exactly the interval after one that was aborted, and
\* a role distribution began a day after the one before.
C38_Witness ==
    /\ cycle.prevOutcome = "lb_failed"
    /\ cycle.start = [date |-> MaxCashDate - 1, slot |-> 2]
    /\ roleCycle.prev = [date |-> MaxCashDate - 1, slot |-> 1]
    /\ roleCycle.start.date = MaxCashDate


\* C39: a reload that fails to read the document leaves the in-memory
\* configuration, the known task names and the known role names exactly as
\* they were, and the sweeps go on with that snapshot: a step in which a
\* reload misses the document written by the administrative process changes
\* none of the three, and while the document is missed the snapshot is the
\* one from before the write.
C39_FailedReloadKeepsSnapshot ==
    [][(admin.pc = "saved" /\ admin'.pc = "missed"
           => /\ config' = config
              /\ known_tasks' = known_tasks
              /\ known_roles' = known_roles
              /\ sweepPos' = sweepPos)
       /\ (admin'.pc = "missed"
           => /\ ~HasTask(config', AdminTask.name)
              /\ AdminTask.name \notin known_tasks')
       /\ (known_tasks' # known_tasks \/ known_roles' # known_roles
           => /\ config' = file
              /\ known_tasks' = TaskNames(file)
              /\ known_roles' = file.roles)]_vars

\* A reload has failed on the document the administrative process wrote, the
\* scheduler still holds the earlier snapshot, and a sweep is running on it.
C39_Witness ==
    /\ admin.pc = "missed"
    /\ HasTask(file, AdminTask.name)
    /\ config # file
    /\ known_tasks = TaskNames(config)
    /\ sweepPos > 0
    /\ last_execution # {}


\* C40: an administrative mutation changes only the key it targets: the step
\* in which add_task writes the document keeps every feature section, the
\* roles and every task the document held, also when the document could not
\* be read when the mutation loaded it, and a refused mutation writes nothing.
C40_MutationKeepsOtherKeys ==
    [][(admin.pc = "loaded" /\ admin'.pc = "saved"
           => /\ file'.features = file.features
              /\ file'.roles = file.roles
              /\ \A k \in 1..Len(file.tasks) : HasTask(file', file.tasks[k].name))
       /\ (admin.pc = "loaded" /\ admin'.pc \in {"refused", "failed"}
           => file' = file)]_vars

====
